---------------------------- MODULE Spec2Model ----------------------------
(***************************************************************************)
(* Capture-and-submit pipeline of the javelin coaching app.                *)
(*                                                                         *)
(* Part I   ProcessingScreen (src/app/processing.tsx): the status poller,  *)
(*          a setInterval whose async callback issues a GET, awaits the    *)
(*          response and acts on it.                                       *)
(* Part II  CameraScreen (src/app/(tabs)/camera.tsx): the capture session. *)
(*                                                                         *)
(* The event loop is single threaded: every action below is one run of     *)
(* JavaScript between two suspension points (an await, a timer, an event). *)
(***************************************************************************)
EXTENDS Integers, Sequences, FiniteSets, Bags, TLC

(***************************************************************************)
(* Bounds of the model.                                                    *)
(***************************************************************************)
\* Status requests that can be in flight at once (a response slower than
\* the 2000 ms interval overlaps the next request).
MaxInFlight == 2

VARIABLES
    \* ---- ProcessingScreen -------------------------------------------------
    params,         \* route params: [fileId, statusUrl], "" when absent
    procScreen,     \* "unmounted" | "mounted" | "gone"
    interval,       \* the effect's local `interval`: 0 (null) or a timer id
    timerActive,    \* whether the interval timer is still scheduled
    requests,       \* slot -> the GET in flight in that slot
    serverStatus,   \* what the status endpoint currently reports
    serverResult,   \* the result payload of the job once completed
    statusMessage,  \* useState statusMessage
    nav,            \* the router.push calls made, in order
    alertsShown,    \* Alert.alert calls made
    alertsOpen,     \* alerts whose OK was not pressed yet
    \* ---- CameraScreen -----------------------------------------------------
    camMounted,     \* the component is mounted
    camView,        \* what the user sees: "camera" | "home" | "preview"
    state,          \* useState: [facing, isRecording, cameraReady]
    view,           \* the state as of the last committed render: what the
                    \* handlers' closures and the buttons were built from
    needsRender,    \* a state update is scheduled and not yet rendered
    refs,           \* useRef .current: [camera, recordingPromise, startTime]
    clock,          \* index of the current instant (Date.now() = Now)
    recordings,     \* recording -> state of the promise recordAsync returned
    readyPending,   \* the native camera will still emit onCameraReady
    tasks,          \* bag of suspended async handler invocations
    camNav,         \* bag of the capture screen's router.push calls
    \* ---- persisting a recording (stopRecording, after the URI check) -----
    platform,       \* Platform.OS
    now,            \* Date.now() as it names the copies
    documentFiles,  \* the javelin_throw_<n>.mp4 files in documentDirectory
    persist,        \* the invocation in progress: [pc, video, fileInfo]
    cameraHeld,     \* cameraRef.current is set
    handoffs,       \* the router.push calls to /preview, in order
    \* ---- FeedbackScreen: the video cache ----------------------------------
    cacheDirectory, \* the names of the files in FileSystem.cacheDirectory
    fbOpen,         \* the feedback screen is mounted
    videoUriString, \* the file name of the video the screen was opened for
    cachedVideoUri, \* useState cachedVideoUri: the local file the player got
    fetches,        \* bag of cacheVideo invocations suspended at an await
    prunes,         \* bag of prune invocations suspended at an await
    fbFlags,        \* useState [isDownloading, isVideoLoading, downloadProgress]
    \* ---- FeedbackScreen, the earlier draft (src/unnamed/part_002) ---------
    draft,          \* [mounted, video, cachedVideoUri, effectUri, depsChanged]
    draftFetches,   \* bag of the draft's cacheVideo invocations at an await
    \* ---- PreviewScreen: the upload ----------------------------------------
    selectedVideo,  \* useState selectedVideo ("" is null)
    isLoading,      \* useState isLoading
    previewStatus,  \* useState statusMessage of the preview screen
    upView,         \* the state the last render's handlers and button closed over
    upNeedsRender,  \* a state update is scheduled and not yet rendered
    uploads,        \* bag of analyzeVideo invocations suspended at an await
    submits,        \* analyzeVideo invocations so far
    uploadAlerts,   \* the Alert.alert calls of analyzeVideo, in order
    uploadNav,      \* the router.push calls to /processing, in order
    \* ---- CameraScreen: the permission gates ------------------------------
    permission,     \* [camera, microphone]: what the two permission hooks hold
    gate,           \* what the last render returned: "blank" | "camera" |
                    \* "microphone" | "capture"
    gateNeedsRender, \* a permission changed and the render is still to come
    \* ---- ProcessingScreen: the step animation -----------------------------
    currentStep,    \* useState currentStep
    stepLoop,       \* animateSteps: [started, i, timeout] (a timeout is pending)
    \* ---- AIAnalysisEngine (the singleton aiAnalysisEngine) ---------------
    isInitialized,  \* private isInitialized
    model,          \* private model: "null" | "loaded"
    poseDetector,   \* private poseDetector: "null" | "initialized"
    calls,          \* bag of the initialize/processVideo invocations that are
                    \* suspended at an await: [op, pc, n, timer]
    settled,        \* how the invocation that ended last ended, "" at first
    \* ---- PreviewScreen: the multipart body of analyzeVideo ---------------
    formUri,        \* selectedVideo as analyzeVideo reads it, character by
                    \* character
    formData        \* the part formData.append received: [type, name]

pollVars == <<params, procScreen, interval, timerActive, requests, serverStatus,
              serverResult, statusMessage, nav, alertsShown, alertsOpen>>

camVars == <<camMounted, camView, state, view, needsRender, refs, clock,
             recordings, readyPending, tasks, camNav>>

persistVars == <<platform, now, documentFiles, persist, cameraHeld, handoffs>>

cacheVars == <<cacheDirectory, fbOpen, videoUriString, cachedVideoUri,
               fetches, prunes, fbFlags>>

\* The state of the screens other than the poller and the capture session.
uploadVars == <<selectedVideo, isLoading, previewStatus, upView, upNeedsRender,
                uploads, submits, uploadAlerts, uploadNav>>

draftVars == <<draft, draftFetches>>

permVars == <<permission, gate, gateNeedsRender>>

stepVars == <<currentStep, stepLoop>>

engineVars == <<isInitialized, model, poseDetector, calls, settled>>

formVars == <<formUri, formData>>

restVars == <<persistVars, cacheVars, draftVars, uploadVars, permVars, stepVars,
              engineVars, formVars>>

vars == <<pollVars, camVars, restVars>>

nonPersistVars == <<pollVars, camVars, cacheVars, draftVars, uploadVars,
                    permVars, stepVars,
                  engineVars, formVars>>

nonCacheVars == <<pollVars, camVars, persistVars, draftVars, uploadVars,
                  permVars, stepVars,
                  engineVars, formVars>>

nonUploadVars == <<pollVars, camVars, persistVars, cacheVars, draftVars,
                   permVars, stepVars,
                  engineVars, formVars>>

nonDraftVars == <<pollVars, camVars, persistVars, uploadVars, permVars,
                  stepVars, engineVars, formVars,
                  fbOpen,
                  videoUriString, cachedVideoUri, fetches, prunes, fbFlags>>

(***************************************************************************)
(* Part II (state): CameraScreen                                           *)
(***************************************************************************)
\* Recordings (recordAsync calls) the model follows.
MaxRecordings == 2

\* Handler invocations that can be suspended at an await at the same time.
MaxTasks == 2

\* Instants of the wall clock the model visits.
MaxClock == 4

\* `if (elapsed < 1000)`.
MinDurationMs == 1000

\* `recordAsync({ maxDuration: 30 })`, in milliseconds.
MaxDurationMs == 30000

RecIds == 1..MaxRecordings

\* Date.now() at each instant: 400 ms, 1000 ms and then 30 s steps after the
\* first, so that elapsed times fall below, on and above both thresholds.
Instant(i) ==
    CASE i = 1 -> 10000
      [] i = 2 -> 10400
      [] i = 3 -> 11000
      [] OTHER -> 11000 + (i - 3) * 30000

Now == Instant(clock)

Unused == [st |-> "unused", started |-> 0]

\* How a recordAsync promise settles: { uri }, undefined, or a rejection.
Settled == {"resolved", "undefined", "rejected"}

\* The recordings in progress: recordAsync was called and has not settled.
ActiveRecordings == {r \in RecIds : recordings[r].st = "pending"}

(***************************************************************************)
(* Part III (state): persisting a recording                                *)
(***************************************************************************)
\* Recordings persisted in one run of the model.
MaxPersist == 4

\* `50 * 1024 * 1024`.
LargeFileBytes == 52428800

Platforms == {"android", "ios"}

\* File sizes getInfoAsync can report: none, small, on and just above the
\* threshold, 60 MiB.
Sizes == {0, 1, LargeFileBytes, LargeFileBytes + 1, 62914560}

\* The URI of a recorded video: with or without the file:// scheme.
VideoUri(scheme, path) == [scheme |-> scheme, dir |-> "camera", name |-> path]

\* `${FileSystem.documentDirectory}javelin_throw_${Date.now()}.mp4`.
PermanentUri(n) == [scheme |-> TRUE, dir |-> "document", name |-> n]

NoVideoUri == [scheme |-> FALSE, dir |-> "none", name |-> 0]

NoFileInfo == [exists |-> FALSE, size |-> 0]

NoPersist == [pc |-> "idle", video |-> NoVideoUri, fileInfo |-> NoFileInfo]

\* Before the first recording is persisted, on platform os.
PersistStart(os) ==
    /\ platform = os
    /\ now = 0
    /\ documentFiles = {}
    /\ persist = NoPersist
    /\ cameraHeld = TRUE
    /\ handoffs = <<>>

(***************************************************************************)
(* Part IV (state): FeedbackScreen, the video cache                        *)
(***************************************************************************)
\* cacheVideo invocations that can be suspended at the same time.
MaxFetches == 2

\* Prune invocations that can be suspended at the same time.
MaxPrunes == 2

\* `if (videoFiles.length > 3)`, `sorted.slice(0, sorted.length - 3)`.
KeepFiles == 3

\* The file names the model uses, and their order under the `>` of
\* JavaScript strings (an upper-case letter sorts before a lower-case one).
FileNames == {"E.MP4", "a.mp4", "b.mov", "c.avi", "d.mkv", "notes.txt"}

NameRank(f) ==
    CASE f = "E.MP4" -> 1
      [] f = "a.mp4" -> 2
      [] f = "b.mov" -> 3
      [] f = "c.avi" -> 4
      [] f = "d.mkv" -> 5
      [] OTHER -> 6

\* `/\.(mp4|mov|avi|mkv)$/i.test(f)`.
IsVideoName(f) == f \in {"E.MP4", "a.mp4", "b.mov", "c.avi", "d.mkv"}

VideoNames == {f \in FileNames : IsVideoName(f)}

\* The draft of the feedback screen before it is first opened.
DraftStart ==
    /\ draft = [mounted |-> FALSE, video |-> "",
                cachedVideoUri |-> [dir |-> "null", name |-> ""],
                effectUri |-> [dir |-> "null", name |-> ""],
                depsChanged |-> FALSE]
    /\ draftFetches = EmptyBag

\* The flags of a feedback screen as mounted: useState(false), useState(true)
\* and useState(0).
FlagsStart == [isDownloading |-> FALSE, isVideoLoading |-> TRUE,
               downloadProgress |-> 0]

\* The feedback screen is not open; the cache holds no video yet.
CacheStart ==
    /\ DraftStart
    /\ fbFlags = FlagsStart
    /\ cacheDirectory = {"notes.txt"}
    /\ fbOpen = FALSE
    /\ videoUriString = ""
    /\ cachedVideoUri = "null"
    /\ fetches = EmptyBag
    /\ prunes = EmptyBag

(***************************************************************************)
(* Part V (state): PreviewScreen, the upload                               *)
(***************************************************************************)
\* analyzeVideo invocations in one run.
MaxSubmits == 2

\* analyzeVideo invocations that can be suspended at the same time.
MaxUploads == 2

\* A field the server's JSON does not carry (undefined in JavaScript).
Absent == "<undefined>"

\* The step animation of the processing screen before the screen is mounted.
StepStart ==
    /\ currentStep = 0
    /\ stepLoop = [started |-> FALSE, i |-> 0, timeout |-> FALSE]

\* The analysis engine as constructed (AIAnalysisEngine.ts:38-40); nothing has
\* called it.
EngineStart ==
    /\ isInitialized = FALSE
    /\ model = "null"
    /\ poseDetector = "null"
    /\ calls = EmptyBag
    /\ settled = ""

\* No video is selected and no multipart body has been built.
NoPart == [type |-> "none", name |-> "none"]

FormStart ==
    /\ formUri = <<>>
    /\ formData = NoPart

\* The preview screen as mounted without a video; the processing screen's
\* animation has not started, the analysis engine is untouched.
PreviewStart ==
    /\ StepStart
    /\ EngineStart
    /\ selectedVideo = ""
    /\ isLoading = FALSE
    /\ previewStatus = ""
    /\ upView = [selectedVideo |-> "", isLoading |-> FALSE]
    /\ upNeedsRender = FALSE
    /\ uploads = EmptyBag
    /\ submits = 0
    /\ uploadAlerts = <<>>
    /\ uploadNav = <<>>

UploadStart == PreviewStart /\ FormStart

RestStart == PersistStart("ios") /\ CacheStart /\ UploadStart

\* The capture screen right after its first commit: permissions granted, the
\* CameraView rendered, its ref callback called with the instance.
CamStart ==
    /\ permission = [camera |-> "granted", microphone |-> "granted"]
    /\ gate = "capture"
    /\ gateNeedsRender = FALSE
    /\ camMounted = TRUE
    /\ camView = "camera"
    /\ state = [facing |-> "back", isRecording |-> FALSE, cameraReady |-> FALSE]
    /\ view = state
    /\ needsRender = FALSE
    /\ refs = [camera |-> "view", recordingPromise |-> 0, startTime |-> 0]
    /\ clock = 1
    /\ recordings = [r \in RecIds |-> Unused]
    /\ readyPending = TRUE
    /\ tasks = EmptyBag
    /\ camNav = EmptyBag

(***************************************************************************)
(* Part I: ProcessingScreen                                                *)
(***************************************************************************)
Slots == 1..MaxInFlight

ParamValues == {"", "job1"}

Results == {"good", "poor"}

InitialMessage == "Processing your throw..."

Free == [state |-> "free", status |-> "none", result |-> "none"]

Sent == [state |-> "sent", status |-> "none", result |-> "none"]

\* A response: the body of a 2xx answer, or a rejected request ("error").
Answer(st, res) == [state |-> "answered", status |-> st, result |-> res]

InFlight == {s \in Slots : requests[s].state # "free"}

FeedbackPushes == {i \in 1..Len(nav) : nav[i].to = "feedback"}

PreviewPushes == {i \in 1..Len(nav) : nav[i].to = "preview"}

InitPoll ==
    /\ params \in [fileId : ParamValues, statusUrl : ParamValues]
    /\ procScreen = "unmounted"
    /\ interval = 0
    /\ timerActive = FALSE
    /\ requests = [s \in Slots |-> Free]
    /\ serverStatus = "processing"
    /\ serverResult = "none"
    /\ statusMessage = InitialMessage
    /\ nav = <<>>
    /\ alertsShown = 0
    /\ alertsOpen = 0
    /\ CamStart
    /\ RestStart

\* useEffect body: `if (fileId && statusUrl) interval = setInterval(..., 2000)`.
MountProcessing ==
    /\ procScreen = "unmounted"
    /\ procScreen' = "mounted"
    /\ IF params.fileId # "" /\ params.statusUrl # ""
       THEN interval' = 1 /\ timerActive' = TRUE
       ELSE UNCHANGED <<interval, timerActive>>
    /\ UNCHANGED <<params, requests, serverStatus, serverResult, statusMessage,
                   nav, alertsShown, alertsOpen>>
    /\ UNCHANGED <<camVars, restVars>>

\* The interval fires: the callback runs up to `await axios.get(...)`.
IntervalFire(s) ==
    /\ timerActive
    /\ requests[s].state = "free"
    /\ requests' = [requests EXCEPT ![s] = Sent]
    /\ UNCHANGED <<params, procScreen, interval, timerActive, serverStatus,
                   serverResult, statusMessage, nav, alertsShown, alertsOpen>>
    /\ UNCHANGED <<camVars, restVars>>

\* The remote job finishes, with a result or with a failure.
ServerFinish ==
    /\ serverStatus = "processing"
    /\ \/ \E r \in Results : serverStatus' = "completed" /\ serverResult' = r
       \/ serverStatus' = "failed" /\ UNCHANGED serverResult
    /\ UNCHANGED <<params, procScreen, interval, timerActive, requests,
                   statusMessage, nav, alertsShown, alertsOpen>>
    /\ UNCHANGED <<camVars, restVars>>

\* The endpoint answers a request with its current status.
ServerRespond(s) ==
    /\ requests[s].state = "sent"
    /\ requests' = [requests EXCEPT ![s] = Answer(serverStatus, serverResult)]
    /\ UNCHANGED <<params, procScreen, interval, timerActive, serverStatus,
                   serverResult, statusMessage, nav, alertsShown, alertsOpen>>
    /\ UNCHANGED <<camVars, restVars>>

\* The request is rejected: a network error or an error HTTP status.
RequestFails(s) ==
    /\ requests[s].state = "sent"
    /\ requests' = [requests EXCEPT ![s] = Answer("error", "none")]
    /\ UNCHANGED <<params, procScreen, interval, timerActive, serverStatus,
                   serverResult, statusMessage, nav, alertsShown, alertsOpen>>
    /\ UNCHANGED <<camVars, restVars>>

\* `if (interval) clearInterval(interval)`.
ClearInterval ==
    timerActive' = IF interval # 0 THEN FALSE ELSE timerActive

\* Mutant of OnCompleted: the interval is left running after the hand-off.
OnCompletedKeepsPolling(resp) ==
    /\ statusMessage' = "Processing complete!"
    /\ nav' = Append(nav, [to |-> "feedback", result |-> resp.result])
    /\ UNCHANGED <<timerActive, alertsShown, alertsOpen>>

\* status === 'completed': message, router.push('/feedback'), clearInterval.
OnCompleted(resp) ==
    /\ statusMessage' = "Processing complete!"
    /\ nav' = Append(nav, [to |-> "feedback", result |-> resp.result])
    /\ ClearInterval
    /\ UNCHANGED <<alertsShown, alertsOpen>>

\* Mutant of OnProcessing: a `processing` answer is handed to the feedback.
OnProcessingHandsOff(resp) ==
    /\ statusMessage' = "server message"
    /\ nav' = Append(nav, [to |-> "feedback", result |-> resp.result])
    /\ UNCHANGED <<timerActive, alertsShown, alertsOpen>>

\* Mutant of OnProcessing: a `processing` answer also cancels the interval.
OnProcessingStopsPolling(resp) ==
    /\ statusMessage' = "server message"
    /\ ClearInterval
    /\ UNCHANGED <<nav, alertsShown, alertsOpen>>

\* status === 'processing': setStatusMessage(response.data.message).
OnProcessing(resp) ==
    /\ statusMessage' = "server message"
    /\ UNCHANGED <<nav, timerActive, alertsShown, alertsOpen>>

\* Any other status: the else branch holds only a commented-out throw.
OnOtherStatus(resp) ==
    UNCHANGED <<statusMessage, nav, timerActive, alertsShown, alertsOpen>>

\* catch: message cleared, Alert.alert('Processing Failed', ...), clearInterval.
OnRequestError ==
    /\ statusMessage' = ""
    /\ alertsShown' = alertsShown + 1
    /\ alertsOpen' = alertsOpen + 1
    /\ ClearInterval
    /\ UNCHANGED nav

\* The callback resumes after the await with the response of slot s.
Deliver(s) ==
    /\ requests[s].state = "answered"
    /\ requests' = [requests EXCEPT ![s] = Free]
    /\ CASE requests[s].status = "error" -> OnRequestError
         [] requests[s].status = "completed" -> OnCompleted(requests[s])
         [] requests[s].status = "processing" -> OnProcessing(requests[s])
         [] OTHER -> OnOtherStatus(requests[s])
    /\ UNCHANGED <<params, procScreen, interval, serverStatus, serverResult>>
    /\ UNCHANGED <<camVars, restVars>>

\* The alert's OK button: `router.push('/preview')`.
AlertOK ==
    /\ alertsOpen > 0
    /\ alertsOpen' = alertsOpen - 1
    /\ nav' = Append(nav, [to |-> "preview", result |-> "none"])
    /\ UNCHANGED <<params, procScreen, interval, timerActive, requests,
                   serverStatus, serverResult, statusMessage, alertsShown>>
    /\ UNCHANGED <<camVars, restVars>>

\* Mutant of EffectCleanup: the cleanup forgets the interval.
EffectCleanupLeavesTimer ==
    UNCHANGED timerActive

\* The effect's cleanup: `if (interval) clearInterval(interval)`.
EffectCleanup ==
    ClearInterval

\* The screen is torn down; React runs the effect's cleanup.
UnmountProcessing ==
    /\ procScreen = "mounted"
    /\ procScreen' = "gone"
    /\ EffectCleanup
    /\ UNCHANGED <<params, interval, requests, serverStatus, serverResult,
                   statusMessage, nav, alertsShown, alertsOpen>>
    /\ UNCHANGED <<camVars, restVars>>

NextPoll ==
    \/ MountProcessing
    \/ \E s \in Slots : IntervalFire(s)
    \/ ServerFinish
    \/ \E s \in Slots : ServerRespond(s)
    \/ \E s \in Slots : RequestFails(s)
    \/ \E s \in Slots : Deliver(s)
    \/ AlertOK
    \/ UnmountProcessing

SpecPoll == InitPoll /\ [][NextPoll]_vars

\* The poller with the scheduling the event loop guarantees: a mounted screen
\* runs its effect, a scheduled interval fires, a request that is not rejected
\* is answered, and an answered request resumes its callback.
SpecPollLive ==
    /\ SpecPoll
    /\ WF_vars(MountProcessing)
    /\ WF_vars(\E s \in Slots : IntervalFire(s))
    /\ \A s \in Slots : WF_vars(ServerRespond(s))
    /\ \A s \in Slots : WF_vars(Deliver(s))

(***************************************************************************)
(* Claims about the status poller                                          *)
(***************************************************************************)
\* A step that issues a status query.
QueryIssued == \E s \in Slots : requests[s].state = "free" /\ requests'[s].state = "sent"

\* A step in which the callback handles a response of the given status.
Handled(st) ==
    \E s \in Slots : /\ requests[s].state = "answered"
                     /\ requests[s].status = st
                     /\ requests'[s].state = "free"

HasJob == params.fileId # "" /\ params.statusUrl # ""

\* C1: the hand-off to the feedback screen is performed at most once per job,
\* whatever the interleaving of overlapping status requests.
C1_HandoffAtMostOnce == Cardinality(FeedbackPushes) <= 1

\* C2: handling a response whose status is neither `processing` nor
\* `completed` (here `failed`) shows the failure and stops the interval.
C2_FailedStatusReported ==
    [][Handled("failed") => (alertsShown' = alertsShown + 1 /\ ~timerActive')]_vars

\* C3: a failing status request is surfaced exactly once, also with several
\* requests in flight: no second failure alert is ever shown.
C3_FailureSurfacedOnce == alertsShown <= 1

\* C4: once a `completed` response has been handled, no step issues a further
\* status query.
C4_NoQueryAfterCompleted == [][FeedbackPushes # {} => ~QueryIssued]_vars

C4_Witness ==
    /\ FeedbackPushes # {}
    /\ procScreen = "mounted"
    /\ \E s \in Slots : requests[s].state = "free"

\* C5: after the screen was torn down a response has no effect: no step
\* navigates to feedback or shows a failure alert.
C5_NoEffectAfterTeardown ==
    [][procScreen = "gone" =>
          (FeedbackPushes' = FeedbackPushes /\ alertsShown' = alertsShown)]_vars

\* C6: teardown cancels the interval (no query is issued once the screen is
\* gone), and a teardown after the interval was already stopped changes nothing
\* but the screen itself.
C6_TeardownStopsPolling ==
    [][/\ procScreen' = "gone" => ~timerActive'
       /\ procScreen = "gone" => ~QueryIssued
       /\ (procScreen = "mounted" /\ procScreen' = "gone" /\ ~timerActive) =>
              UNCHANGED <<interval, timerActive, requests, statusMessage, nav,
                          alertsShown, alertsOpen>>]_vars

C6_Witness ==
    /\ procScreen = "gone"
    /\ interval # 0
    /\ FeedbackPushes # {}
    /\ \E s \in Slots : requests[s].state = "free"

\* C7: a `processing` answer only updates the message and polling goes on; if
\* the endpoint eventually answers `completed`, the screen stays up and no
\* request fails, the result is eventually handed to the feedback screen.
C7_ProcessingThenHandoff ==
    /\ [][Handled("processing") =>
             UNCHANGED <<timerActive, nav, alertsShown, alertsOpen>>]_vars
    /\ (/\ HasJob
        /\ [](procScreen # "gone")
        /\ [](\A s \in Slots : requests[s].status # "error")
        /\ <>(serverStatus = "completed"))
           => <>(FeedbackPushes # {})

C7_Witness ==
    /\ statusMessage = "server message"
    /\ timerActive
    /\ serverStatus = "completed"
    /\ alertsShown = 0

(***************************************************************************)
(* Part II: CameraScreen                                                   *)
(*                                                                         *)
(* A handler reads isRecording and cameraReady from the closure of the     *)
(* render that created it (`view`); a set-state call only schedules the    *)
(* next render.  An event that is already queued when a handler schedules  *)
(* an update runs before the commit, with the handlers of the previous     *)
(* render.  The CameraView's ref prop is an inline arrow function: it is a *)
(* new function on every render, so every commit calls it again with the   *)
(* mounted instance.                                                       *)
(***************************************************************************)
\* The processing screen before it is opened, for a job that was accepted.
PollStart ==
    /\ params = [fileId |-> "job1", statusUrl |-> "job1"]
    /\ procScreen = "unmounted"
    /\ interval = 0
    /\ timerActive = FALSE
    /\ requests = [s \in Slots |-> Free]
    /\ serverStatus = "processing"
    /\ serverResult = "none"
    /\ statusMessage = InitialMessage
    /\ nav = <<>>
    /\ alertsShown = 0
    /\ alertsOpen = 0

InitCam ==
    /\ CamStart
    /\ RestStart
    /\ PollStart

\* The capture screen is the view the user sees.
CameraActive == camMounted /\ camView = "camera"

\* A suspended invocation of an async handler.
\*   kind     "stop" | "toggle" | "close"
\*   pc       the await it is suspended at
\*   cIsRec   isRecording as the invocation's closure holds it
\*   rec      the recording whose promise is awaited, then `video`
\*   ok       whether the awaited stopRecording call resolves (else throws)
\*   info     "none" | "small" | "large": what getInfoAsync told
Task(kind, pc, cIsRec, rec, ok, info) ==
    [kind |-> kind, pc |-> pc, cIsRec |-> cIsRec, rec |-> rec, ok |-> ok,
     info |-> info]

Spawn(t) == tasks (+) SetToBag({t})

Finish(t) == tasks (-) SetToBag({t})

Replace(t, u) == (tasks (-) SetToBag({t})) (+) SetToBag({u})

Suspended == BagToSet(tasks)

\* A set-state call: the new state, and a render is scheduled if it differs.
\* On an unmounted component a set-state call does nothing.
SetState(s) ==
    IF camMounted
    THEN /\ state' = s
         /\ needsRender' = (needsRender \/ s # state)
    ELSE UNCHANGED <<state, needsRender>>

\* `setIsRecording(false); recordingPromiseRef.current = null;
\*  startTimeRef.current = null`.
ClearRecordingRefs(r) == [r EXCEPT !.recordingPromise = 0, !.startTime = 0]

NotRecording(s) == [s EXCEPT !.isRecording = FALSE]

\* A finally block that keeps the camera reference.
ReleasedRefsKept(r) == r

\* The finally block of safeReleaseCamera.
ReleasedRefs(r) == [r EXCEPT !.camera = "null"]

ReleasedState(s) == [s EXCEPT !.cameraReady = FALSE]

\* The native stopRecording ends the recordings in progress: their promises
\* settle with outcome o.
StopEffect(o) ==
    [r \in RecIds |-> IF recordings[r].st = "pending"
                      THEN [st |-> o, started |-> 0]
                      ELSE recordings[r]]

\* The outcomes of a stopRecording call: how the recordings in progress
\* settle, and whether the call resolves; it may throw when nothing records.
StopOutcomes ==
    IF ActiveRecordings # {}
    THEN {[o |-> o, ok |-> TRUE] : o \in Settled}
    ELSE {[o |-> "resolved", ok |-> b] : b \in BOOLEAN}

\* `router.push({ pathname: '/preview', params: { videoUri } })`.
PushPreview(t, uri) ==
    /\ camNav' = camNav (+) SetToBag({[to |-> "preview", uri |-> uri, rec |-> t.rec]})
    /\ camView' = "preview"

\* `router.back()`.
RouterBack ==
    camView' = CASE camView = "camera" -> "home"
                 [] camView = "preview" -> "camera"
                 [] OTHER -> camView

\* The wall clock advances.  Time that passes while no start time is held
\* and no recording runs is read by nothing, and is not stepped through.
Tick ==
    /\ clock < MaxClock
    /\ refs.startTime # 0 \/ ActiveRecordings # {}
    /\ clock' = clock + 1
    /\ UNCHANGED <<camMounted, camView, state, view, needsRender, refs,
                   recordings, readyPending, tasks, camNav>>
    /\ UNCHANGED <<pollVars, restVars>>

\* onCameraReady: `setCameraReady(true)`.
handleCameraReady ==
    /\ camMounted
    /\ readyPending
    /\ readyPending' = FALSE
    /\ SetState([state EXCEPT !.cameraReady = TRUE])
    /\ UNCHANGED <<camMounted, camView, view, refs, clock, recordings,
                   tasks, camNav>>
    /\ UNCHANGED <<pollVars, restVars>>

\* The ref callback of the CameraView: `cameraRef.current = ref`.
RefCallback(r, instance) == [r EXCEPT !.camera = instance]

\* A commit of the component: new closures, the inline ref callback is called
\* with the instance, and a changed facing restarts the native camera.
Render ==
    /\ camMounted
    /\ needsRender
    /\ needsRender' = FALSE
    /\ view' = state
    /\ refs' = RefCallback(refs, "view")
    /\ readyPending' = (readyPending \/ state.facing # view.facing)
    /\ UNCHANGED <<camMounted, camView, state, clock, recordings, tasks, camNav>>
    /\ UNCHANGED <<pollVars, restVars>>

\* The guard of startRecording, on the closure v of the handler.
StartGuard(v) == v.cameraReady /\ refs.camera # "null" /\ ~v.isRecording

\* The state update startRecording makes before it calls recordAsync.
StartedState(s) == [s EXCEPT !.isRecording = TRUE]

\* The record button (shown while not recording, enabled when ready) is
\* pressed: startRecording, which has no await.
startRecording ==
    /\ CameraActive
    /\ ~view.isRecording /\ view.cameraReady
    /\ StartGuard(view)
    /\ \E r \in RecIds :
        /\ recordings[r].st = "unused"
        /\ \A q \in RecIds : q < r => recordings[q].st # "unused"
        /\ \/ /\ recordings' = [recordings EXCEPT
                                   ![r] = [st |-> "pending", started |-> Now]]
              /\ SetState(StartedState(state))
              /\ refs' = [refs EXCEPT !.startTime = Now, !.recordingPromise = r]
           \/ \* recordAsync throws: the catch block
              /\ state' = NotRecording(state)
              /\ needsRender' = TRUE
              /\ refs' = [refs EXCEPT !.startTime = Now, !.recordingPromise = 0]
                        /\ UNCHANGED recordings
    /\ UNCHANGED <<camMounted, camView, view, clock, readyPending,
                   tasks, camNav>>
    /\ UNCHANGED <<pollVars, restVars>>

\* The device ends a recording by itself at the maxDuration cap.
AutoStop(r) ==
    /\ recordings[r].st = "pending"
    /\ Now - recordings[r].started >= MaxDurationMs
    /\ recordings' = [recordings EXCEPT ![r] = [st |-> "resolved", started |-> 0]]
    /\ UNCHANGED <<camMounted, camView, state, view, needsRender, refs, clock,
                   readyPending, tasks, camNav>>
    /\ UNCHANGED <<pollVars, restVars>>

\* `const elapsed = startTimeRef.current ? Date.now() - startTimeRef.current : 0`.
Elapsed == IF refs.startTime # 0 THEN Now - refs.startTime ELSE 0

\* The too-short test with the bound included.
TooShortInclusive(elapsed) == elapsed <= MinDurationMs

\* `if (elapsed < 1000)`.
TooShort(elapsed) == elapsed < MinDurationMs

\* The stop button (shown while recording) is pressed: stopRecording up to
\* its first await, `await cameraRef.current.stopRecording?.()`.
stopRecording ==
    /\ CameraActive
    /\ view.isRecording
    /\ refs.camera # "null"
    /\ BagCardinality(tasks) < MaxTasks
    /\ \E out \in StopOutcomes :
        /\ recordings' = StopEffect(out.o)
        /\ tasks' = Spawn(Task("stop",
                               IF TooShort(Elapsed) THEN "short_stop" ELSE "stop",
                               view.isRecording, 0, out.ok, "none"))
    /\ UNCHANGED <<camMounted, camView, state, view, needsRender, refs, clock,
                   readyPending, camNav>>
    /\ UNCHANGED <<pollVars, restVars>>

\* A finally block of the too-short branch that keeps the start time.
ShortFinallyKeepsStart(t) ==
    /\ SetState(NotRecording(state))
    /\ refs' = [refs EXCEPT !.recordingPromise = 0]
    /\ tasks' = Finish(t)
    /\ UNCHANGED <<camMounted, camView, view, clock, recordings, readyPending,
                   camNav>>

\* The finally block of the too-short branch, then the alert and the return.
ShortFinally(t) ==
    /\ SetState(NotRecording(state))
    /\ refs' = ClearRecordingRefs(refs)
    /\ tasks' = Finish(t)
    /\ UNCHANGED <<camMounted, camView, view, clock, recordings, readyPending,
                   camNav>>

\* Too-short branch, after `await cameraRef.current.stopRecording?.()`.
StopShortResume(t) ==
    /\ t.kind = "stop" /\ t.pc = "short_stop"
    /\ IF t.ok /\ refs.recordingPromise # 0
       THEN /\ tasks' = Replace(t, [t EXCEPT !.pc = "short_promise",
                                             !.rec = refs.recordingPromise])
            /\ UNCHANGED <<camMounted, camView, state, view, needsRender, refs,
                           clock, recordings, readyPending, camNav>>
       ELSE ShortFinally(t)
    /\ UNCHANGED <<pollVars, restVars>>

\* Too-short branch, after `await recordingPromiseRef.current` (a rejection
\* is ignored).
StopShortPromise(t) ==
    /\ t.kind = "stop" /\ t.pc = "short_promise"
    /\ recordings[t.rec].st \in Settled
    /\ ShortFinally(t)
    /\ UNCHANGED <<pollVars, restVars>>

\* An outer catch that clears the refs and leaves isRecording set.
StopCatchStillRecording(t) ==
    /\ refs' = ClearRecordingRefs(refs)
    /\ tasks' = Finish(t)
    /\ UNCHANGED <<camMounted, camView, state, needsRender, view, clock,
                   recordings, readyPending, camNav>>

\* The outer catch of stopRecording.
StopCatch(t) ==
    /\ SetState(NotRecording(state))
    /\ refs' = ClearRecordingRefs(refs)
    /\ tasks' = Finish(t)
    /\ UNCHANGED <<camMounted, camView, view, clock, recordings, readyPending,
                   camNav>>

\* `if (!video?.uri)`: the state is cleared, 'No video was recorded'.
NoVideo(t) ==
    /\ SetState(NotRecording(state))
    /\ refs' = ClearRecordingRefs(refs)
    /\ tasks' = Finish(t)
    /\ UNCHANGED <<camMounted, camView, view, clock, recordings, readyPending,
                   camNav>>

\* Normal branch, after `await cameraRef.current.stopRecording?.()`.
StopResume(t) ==
    /\ t.kind = "stop" /\ t.pc = "stop"
    /\ IF ~t.ok THEN StopCatch(t)
       ELSE IF refs.recordingPromise # 0
       THEN /\ tasks' = Replace(t, [t EXCEPT !.pc = "promise",
                                             !.rec = refs.recordingPromise])
            /\ UNCHANGED <<camMounted, camView, state, view, needsRender, refs,
                           clock, recordings, readyPending, camNav>>
       ELSE NoVideo(t)
    /\ UNCHANGED <<pollVars, restVars>>

\* Normal branch, after `video = await recordingPromiseRef.current`: the
\* recording state is cleared and getInfoAsync is called.
StopPromise(t) ==
    /\ t.kind = "stop" /\ t.pc = "promise"
    /\ recordings[t.rec].st \in Settled
    /\ CASE recordings[t.rec].st = "rejected" -> StopCatch(t)
         [] recordings[t.rec].st = "undefined" -> NoVideo(t)
         [] OTHER ->
              /\ SetState(NotRecording(state))
              /\ refs' = ClearRecordingRefs(refs)
              /\ tasks' = Replace(t, [t EXCEPT !.pc = "info"])
              /\ UNCHANGED <<camMounted, camView, view, clock, recordings,
                             readyPending, camNav>>
    /\ UNCHANGED <<pollVars, restVars>>

\* stopRecording after safeReleaseCamera returned, with the state s, the
\* refs r its finally block left: the large file and the
\* fallback navigate with the original URI, a small file is copied first.
AfterRelease(t, u, s, r) ==
    /\ SetState(s)
    /\ refs' = r
    /\ IF u.info = "small"
       THEN /\ tasks' = Replace(t, [u EXCEPT !.pc = "copy"])
            /\ UNCHANGED <<camView, camNav>>
       ELSE /\ PushPreview(u, "original")
            /\ tasks' = Finish(t)
    /\ UNCHANGED <<camMounted, view, clock, recordings, readyPending>>

\* safeReleaseCamera as stopRecording awaits it: with no camera reference
\* it returns through its finally block at once, else it awaits pausePreview.
safeReleaseCamera(t, u) ==
    IF refs.camera = "null"
    THEN AfterRelease(t, u, ReleasedState(state), ReleasedRefs(refs))
    ELSE /\ tasks' = Replace(t, [u EXCEPT !.pc = "release"])
         /\ UNCHANGED <<camMounted, camView, state, view, needsRender, refs,
                        clock, recordings, readyPending, camNav>>

\* After `await FileSystem.getInfoAsync(video.uri)`: the size is known, or
\* the call threw and the catch takes over; either way the camera is released.
StopInfo(t) ==
    /\ t.kind = "stop" /\ t.pc = "info"
    /\ \E inf \in {"small", "large", "throws"} :
           safeReleaseCamera(t, [t EXCEPT !.info = inf])
    /\ UNCHANGED <<pollVars, restVars>>

\* After `await cameraRef.current.pausePreview?.()` (an error is ignored).
StopRelease(t) ==
    /\ t.kind = "stop" /\ t.pc = "release"
    /\ AfterRelease(t, t, ReleasedState(state), ReleasedRefs(refs))
    /\ UNCHANGED <<pollVars, restVars>>

\* After `await FileSystem.copyAsync(...)`: navigate with the copy, or on an
\* error release the camera again and navigate with the original.
StopCopy(t) ==
    /\ t.kind = "stop" /\ t.pc = "copy"
    /\ \/ /\ PushPreview(t, "copy")
          /\ tasks' = Finish(t)
          /\ UNCHANGED <<camMounted, state, view, needsRender, refs, clock,
                         recordings, readyPending>>
       \/ safeReleaseCamera(t, [t EXCEPT !.info = "throws"])
    /\ UNCHANGED <<pollVars, restVars>>

Flip(f) == IF f = "back" THEN "front" ELSE "back"

\* The end of toggleCameraFacing: `setFacing(...)`; `setCameraReady(false)`.
ToggleFlip(t, s, r) ==
    /\ SetState([s EXCEPT !.facing = Flip(s.facing), !.cameraReady = FALSE])
    /\ refs' = r
    /\ tasks' = Finish(t)
    /\ UNCHANGED <<camMounted, camView, view, clock, recordings, readyPending,
                   camNav>>

\* `await safeReleaseCamera()` in toggleCameraFacing, entered with state s
\* and refs r.
ToggleRelease(t, s, r) ==
    IF r.camera = "null"
    THEN ToggleFlip(t, ReleasedState(s), ReleasedRefs(r))
    ELSE /\ SetState(s)
         /\ refs' = r
         /\ tasks' = Replace(t, [t EXCEPT !.pc = "t_release"])
         /\ UNCHANGED <<camMounted, camView, view, clock, recordings,
                        readyPending, camNav>>

\* The flip button (enabled when ready) is pressed: toggleCameraFacing up to
\* `await Haptics.impactAsync(...)`.
toggleCameraFacing ==
    /\ CameraActive
    /\ view.cameraReady
    /\ BagCardinality(tasks) < MaxTasks
    /\ tasks' = Spawn(Task("toggle", "haptics", view.isRecording, 0, TRUE, "none"))
    /\ UNCHANGED <<camMounted, camView, state, view, needsRender, refs, clock,
                   recordings, readyPending, camNav>>
    /\ UNCHANGED <<pollVars, restVars>>

\* After the haptics: `if (isRecording && cameraRef.current)` stop the
\* recording first, else release the camera.
ToggleHaptics(t) ==
    /\ t.kind = "toggle" /\ t.pc = "haptics"
    /\ IF t.cIsRec /\ refs.camera # "null"
       THEN \E out \in StopOutcomes :
              /\ recordings' = StopEffect(out.o)
              /\ tasks' = Replace(t, [t EXCEPT !.pc = "t_stop", !.ok = out.ok])
              /\ UNCHANGED <<camMounted, camView, state, view, needsRender,
                             refs, clock, readyPending, camNav>>
       ELSE ToggleRelease(t, state, refs)
    /\ UNCHANGED <<pollVars, restVars>>

\* After `await cameraRef.current.stopRecording?.()` in toggleCameraFacing.
ToggleStop(t) ==
    /\ t.kind = "toggle" /\ t.pc = "t_stop"
    /\ IF t.ok /\ refs.recordingPromise # 0
       THEN /\ tasks' = Replace(t, [t EXCEPT !.pc = "t_promise",
                                             !.rec = refs.recordingPromise])
            /\ UNCHANGED <<camMounted, camView, state, view, needsRender, refs,
                           clock, recordings, readyPending, camNav>>
       ELSE ToggleRelease(t, NotRecording(state), ClearRecordingRefs(refs))
    /\ UNCHANGED <<pollVars, restVars>>

\* After `await recordingPromiseRef.current` in toggleCameraFacing.
TogglePromise(t) ==
    /\ t.kind = "toggle" /\ t.pc = "t_promise"
    /\ recordings[t.rec].st \in Settled
    /\ ToggleRelease(t, NotRecording(state), ClearRecordingRefs(refs))
    /\ UNCHANGED <<pollVars, restVars>>

\* After pausePreview in toggleCameraFacing's safeReleaseCamera.
ToggleReleased(t) ==
    /\ t.kind = "toggle" /\ t.pc = "t_release"
    /\ ToggleFlip(t, ReleasedState(state), ReleasedRefs(refs))
    /\ UNCHANGED <<pollVars, restVars>>

\* The close button is pressed: `await safeReleaseCamera(); router.back()`.
closeButton ==
    /\ CameraActive
    /\ IF refs.camera = "null"
       THEN /\ SetState(ReleasedState(state))
            /\ refs' = ReleasedRefs(refs)
            /\ RouterBack
            /\ UNCHANGED tasks
       ELSE /\ BagCardinality(tasks) < MaxTasks
            /\ tasks' = Spawn(Task("close", "c_release", FALSE, 0, TRUE, "none"))
            /\ UNCHANGED <<camView, state, needsRender, refs>>
    /\ UNCHANGED <<camMounted, view, clock, recordings, readyPending,
                   camNav>>
    /\ UNCHANGED <<pollVars, restVars>>

\* After pausePreview in the close button's safeReleaseCamera.
CloseReleased(t) ==
    /\ t.kind = "close" /\ t.pc = "c_release"
    /\ SetState(ReleasedState(state))
    /\ refs' = ReleasedRefs(refs)
    /\ RouterBack
    /\ tasks' = Finish(t)
    /\ UNCHANGED <<camMounted, view, clock, recordings, readyPending, camNav>>
    /\ UNCHANGED <<pollVars, restVars>>

\* The user opens the capture screen again from the home tab.
EnterCamera ==
    /\ camMounted
    /\ camView = "home"
    /\ camView' = "camera"
    /\ UNCHANGED <<camMounted, state, view, needsRender, refs, clock,
                   recordings, readyPending, tasks, camNav>>
    /\ UNCHANGED <<pollVars, restVars>>

\* The user goes back from the preview screen.
BackFromPreview ==
    /\ camMounted
    /\ camView = "preview"
    /\ camView' = "camera"
    /\ UNCHANGED <<camMounted, state, view, needsRender, refs, clock,
                   recordings, readyPending, tasks, camNav>>
    /\ UNCHANGED <<pollVars, restVars>>

\* The mount effect's cleanup: with a camera reference it stops, pauses and
\* clears the reference; without one it does nothing.
UnmountCleanup(r) == IF r.camera # "null" THEN ReleasedRefs(r) ELSE r

\* The state a fresh component instance starts from (the useState defaults).
InitialState == [facing |-> "back", isRecording |-> FALSE, cameraReady |-> FALSE]

\* The component unmounts: React detaches the ref (the callback is called
\* with null), runs the effect cleanup and discards the component's state
\* and its native view.
UnmountCamera ==
    /\ camMounted
    /\ camMounted' = FALSE
    /\ refs' = UnmountCleanup(RefCallback(refs, "null"))
    /\ camView' = IF camView = "camera" THEN "home" ELSE camView
    /\ state' = InitialState
    /\ view' = InitialState
    /\ needsRender' = FALSE
    /\ readyPending' = FALSE
    /\ UNCHANGED <<clock, recordings, tasks, camNav>>
    /\ UNCHANGED <<pollVars, restVars>>

NextCam ==
    \/ Tick
    \/ handleCameraReady
    \/ Render
    \/ startRecording
    \/ \E r \in RecIds : AutoStop(r)
    \/ stopRecording
    \/ \E t \in Suspended : StopShortResume(t)
    \/ \E t \in Suspended : StopShortPromise(t)
    \/ \E t \in Suspended : StopResume(t)
    \/ \E t \in Suspended : StopPromise(t)
    \/ \E t \in Suspended : StopInfo(t)
    \/ \E t \in Suspended : StopRelease(t)
    \/ \E t \in Suspended : StopCopy(t)
    \/ toggleCameraFacing
    \/ \E t \in Suspended : ToggleHaptics(t)
    \/ \E t \in Suspended : ToggleStop(t)
    \/ \E t \in Suspended : TogglePromise(t)
    \/ \E t \in Suspended : ToggleReleased(t)
    \/ closeButton
    \/ \E t \in Suspended : CloseReleased(t)
    \/ EnterCamera
    \/ BackFromPreview
    \/ UnmountCamera

SpecCam == InitCam /\ [][NextCam]_vars

(***************************************************************************)
(* Properties of the capture screen                                        *)
(***************************************************************************)
\* C8: at most one recording is active at any instant; a startRecording
\* invoked while a recording is active, also one invoked before the first
\* invocation's state update is rendered, starts no second recording.
C8_AtMostOneRecording == Cardinality(ActiveRecordings) <= 1

\* The awaits of the too-short branch of stopRecording.
ShortPcs == {"short_stop", "short_promise"}

\* The awaits of stopRecording past the `video.uri` check.
AssetPcs == {"info", "release", "copy"}

\* The invocations that take a step: those the step removes from the bag.
Stepping == {t \in Suspended : CopiesIn(t, tasks') < CopiesIn(t, tasks)}

\* The invocations a step suspends: those it adds to the bag.
Suspending == {t \in BagToSet(tasks') : CopiesIn(t, tasks') > CopiesIn(t, tasks)}

Pushes == BagCardinality(camNav)

\* C9: a stopRecording invoked less than 1000 ms after the start takes the
\* too-short branch, and that branch never copies and never navigates; one
\* invoked at 1000 ms or later whose stop call succeeds and whose recording
\* promise yields a URI goes on to the file check, and from the file check
\* on every way out of the handler is a navigation to the preview.  The
\* elapsed time is the one the handler measures from the stored start time,
\* which is the time the recording held in recordingPromiseRef has run for.
C9_MinimumDuration ==
    [][ /\ \A r \in ActiveRecordings :
              (refs.recordingPromise = r /\ refs.startTime # 0) =>
                  Elapsed = Now - recordings[r].started
        /\ \A u \in Suspending :
              (u.kind = "stop" /\ Stepping = {}) =>
                  /\ u.pc \in {"short_stop", "stop"}
                  /\ (u.pc = "short_stop") <=> (Elapsed < MinDurationMs)
        /\ \A t \in Stepping :
              /\ t.pc \in ShortPcs =>
                    /\ camNav' = camNav
                    /\ camView' = camView
                    /\ \A u \in Suspending : u.pc \in ShortPcs
              /\ (t.pc = "stop" /\ t.ok /\ refs.recordingPromise # 0) =>
                    \E u \in Suspending : u.pc = "promise"
              /\ (t.pc = "promise" /\ recordings[t.rec].st = "resolved") =>
                    \E u \in Suspending : u.pc = "info"
              /\ t.pc \in AssetPcs =>
                    \/ /\ \E u \in Suspending : u.pc \in {"release", "copy"}
                       /\ camNav' = camNav
                    \/ /\ Suspending = {}
                       /\ BagCardinality(camNav') = Pushes + 1
                       /\ camView' = "preview"
      ]_vars

\* One invocation sits in the too-short branch awaiting the recording while
\* another, made at 1000 ms or later, has navigated to the preview.
C9_Witness ==
    /\ \E t \in Suspended : t.pc = "short_promise"
    /\ Pushes > 0

\* C10: whenever the capture screen is not the active view (after the
\* close button, after the navigation to the preview, after unmount) the
\* camera reference is cleared, and no later render re-establishes it.
C10_RefClearedWhenInactive == ~CameraActive => refs.camera = "null"

\* The steps in which safeReleaseCamera returns through its finally block:
\* at once when it finds no camera reference, else after pausePreview.
ReleaseReturns ==
    \/ closeButton /\ refs.camera = "null"
    \/ \E t \in Suspended : CloseReleased(t) \/ StopRelease(t) \/ ToggleReleased(t)
    \/ \E t \in Suspended :
          /\ refs.camera = "null"
          /\ \/ StopInfo(t)
             \/ StopCopy(t) /\ \E n \in BagToSet(camNav' (-) camNav) : n.uri = "original"
             \/ ToggleHaptics(t)
             \/ ToggleStop(t) /\ ~(t.ok /\ refs.recordingPromise # 0)
             \/ TogglePromise(t)

\* The part of the state safeReleaseCamera writes.
Idle == refs.camera = "null" /\ ~state.cameraReady

\* C11: every return of safeReleaseCamera leaves the camera reference
\* cleared and the camera not ready, and a call made when that already holds
\* changes neither; no call raises an error (its catch ignores pausePreview).
C11_ReleaseIdempotent ==
    [][ReleaseReturns =>
          /\ refs'.camera = "null" /\ ~state'.cameraReady
          /\ Idle => (refs'.camera = refs.camera
                        /\ state'.cameraReady = state.cameraReady)]_vars

\* A second release is suspended at pausePreview after a first one returned.
C11_Witness ==
    /\ camMounted
    /\ Idle
    /\ \E t \in Suspended : t.pc \in {"release", "c_release", "t_release"}

\* No handler invocation is suspended and no render is scheduled: nothing
\* more happens until the next user event.
Quiescent == tasks = EmptyBag /\ ~needsRender

\* The recording held in recordingPromiseRef has ended with a video.
HeldRecordingEnded ==
    /\ refs.recordingPromise # 0
    /\ recordings[refs.recordingPromise].st = "resolved"

\* C12: a recording the device ends by itself at the 30 s cap is treated
\* like a manual stop: once the handlers have run to their end the session
\* has left the recording state and the video was handed to the preview.
C12_AutoStopLikeManualStop ==
    (camMounted /\ Quiescent /\ HeldRecordingEnded) =>
        (~state.isRecording /\ Pushes > 0)

\* The navigations to the preview made for recording r.
PushesOf(r) ==
    LET S == {n \in BagToSet(camNav) : n.rec = r}
    IN  BagCardinality([n \in S |-> camNav[n]])

\* C13: a recording attempt has one terminal outcome: for one started
\* recording at most one navigation to the preview occurs, also when
\* stopRecording is invoked again while the first stop is still awaited.
C13_SingleOutcome == \A r \in RecIds : PushesOf(r) <= 1

\* A call of the device's stopRecording is awaited by some handler.
StopInFlight == \E t \in Suspended : t.pc \in {"stop", "short_stop", "t_stop"}

\* C14: when the facing is toggled during a recording, the stop and the
\* recording's completion are awaited and the recording state is cleared
\* before the camera is released and the facing changes: the facing never
\* changes while a recording runs or a stop is still in flight.
C14_ToggleAwaitsStop ==
    [][(camMounted' /\ state'.facing # state.facing) =>
          /\ ActiveRecordings = {}
          /\ ~StopInFlight'
          /\ ~state'.isRecording]_vars

(***************************************************************************)
(* Part III: persisting a recording                                        *)
(*                                                                         *)
(* stopRecording from the point where `video.uri` is known                 *)
(* (camera.tsx 225-268): the file check, the release of the camera, the    *)
(* copy to documentDirectory and the navigation to the preview.            *)
(***************************************************************************)
\* The size test with the threshold included.
IsLargeFileInclusive(fileInfo) ==
    fileInfo.exists /\ fileInfo.size # 0 /\ fileInfo.size >= LargeFileBytes

\* `fileInfo.exists && 'size' in fileInfo && fileInfo.size &&
\*  fileInfo.size > 50 * 1024 * 1024`.
IsLargeFile(fileInfo) ==
    fileInfo.exists /\ fileInfo.size # 0 /\ fileInfo.size > LargeFileBytes

\* `if (Platform.OS === 'android' && !finalUri.startsWith('file://'))
\*    finalUri = `file://${finalUri}``.
FinalUri(uri) ==
    IF platform = "android" /\ ~uri.scheme
    THEN [uri EXCEPT !.scheme = TRUE]
    ELSE uri

\* What getInfoAsync can answer for files of the sizes in S.
FileInfos(S) ==
    {[exists |-> TRUE, size |-> s] : s \in S} \cup {NoFileInfo}

\* `router.push({ pathname: '/preview', params: { videoUri } })`: the
\* invocation ends.
Handoff(uri) ==
    /\ handoffs' = Append(handoffs, uri)
    /\ persist' = NoPersist

\* A recording ended with a video (at least a second after the previous
\* one): `await FileSystem.getInfoAsync(video.uri)` is called.
BeginPersist ==
    /\ persist.pc = "idle"
    /\ Len(handoffs) < MaxPersist
    /\ now' = now + 1
    /\ cameraHeld' = TRUE
    /\ \E scheme \in BOOLEAN :
          persist' = [pc |-> "info", video |-> VideoUri(scheme, now + 1),
                      fileInfo |-> NoFileInfo]
    /\ UNCHANGED <<platform, documentFiles, handoffs>>
    /\ UNCHANGED nonPersistVars

\* getInfoAsync returns one of the answers in infos, or throws when
\* mayThrow; then safeReleaseCamera is awaited (in the try or in the catch).
GetInfoReturns(infos, mayThrow) ==
    /\ persist.pc = "info"
    /\ \/ \E fi \in infos :
             persist' = [persist EXCEPT !.pc = "release", !.fileInfo = fi]
       \/ /\ mayThrow
          /\ persist' = [persist EXCEPT !.pc = "fallback"]
    /\ UNCHANGED <<platform, now, documentFiles, cameraHeld, handoffs>>
    /\ UNCHANGED nonPersistVars

\* A try block that navigates with the destination before it copies.
PersistReleasedPushesFirst ==
    /\ persist.pc = "release"
    /\ cameraHeld' = FALSE
    /\ IF IsLargeFile(persist.fileInfo)
       THEN Handoff(FinalUri(persist.video))
       ELSE /\ persist' = [persist EXCEPT !.pc = "copy"]
            /\ handoffs' = Append(handoffs, PermanentUri(now))
    /\ UNCHANGED <<platform, now, documentFiles>>
    /\ UNCHANGED nonPersistVars

\* After `await safeReleaseCamera()` in the try block: a large file is
\* handed on as it is, any other is copied.
PersistReleased ==
    /\ persist.pc = "release"
    /\ cameraHeld' = FALSE
    /\ IF IsLargeFile(persist.fileInfo)
       THEN Handoff(FinalUri(persist.video))
       ELSE /\ persist' = [persist EXCEPT !.pc = "copy"]
            /\ UNCHANGED handoffs
    /\ UNCHANGED <<platform, now, documentFiles>>
    /\ UNCHANGED nonPersistVars

\* After `await FileSystem.copyAsync(...)`: the copy exists and is handed
\* on, or the call threw.
CopyReturns(mayThrow) ==
    /\ persist.pc = "copy"
    /\ \/ /\ documentFiles' = documentFiles \cup {now}
          /\ Handoff(PermanentUri(now))
       \/ /\ mayThrow
          /\ persist' = [persist EXCEPT !.pc = "fallback"]
          /\ UNCHANGED <<documentFiles, handoffs>>
    /\ UNCHANGED <<platform, now, cameraHeld>>
    /\ UNCHANGED nonPersistVars

\* A catch block that gives the attempt up.
FallbackGivesUp ==
    /\ persist.pc = "fallback"
    /\ cameraHeld' = FALSE
    /\ persist' = NoPersist
    /\ UNCHANGED <<platform, now, documentFiles, handoffs>>
    /\ UNCHANGED nonPersistVars

\* The catch block after its `await safeReleaseCamera()`.
FallbackReleased ==
    /\ persist.pc = "fallback"
    /\ cameraHeld' = FALSE
    /\ Handoff(FinalUri(persist.video))
    /\ UNCHANGED <<platform, now, documentFiles>>
    /\ UNCHANGED nonPersistVars

InitPersist ==
    /\ PollStart
    /\ CamStart
    /\ \E os \in Platforms : PersistStart(os)
    /\ CacheStart
    /\ UploadStart

NextPersist ==
    \/ BeginPersist
    \/ GetInfoReturns(FileInfos(Sizes), TRUE)
    \/ PersistReleased
    \/ CopyReturns(TRUE)
    \/ FallbackReleased

SpecPersist == InitPersist /\ [][NextPersist]_vars

(***************************************************************************)
(* Part IV: FeedbackScreen, the video cache                                *)
(*                                                                         *)
(* The caching effect (splash.tsx 176-299): cacheVideo looks the file up   *)
(* in the cache directory, downloads it when it is missing, gives the      *)
(* local file to the player and starts a prune that it does not await.     *)
(***************************************************************************)
\* A suspended cacheVideo invocation.
\*   pc         "info" | "download": the await it is suspended at
\*   file       fileName, the last segment of videoUriString
\*   isMounted  the effect's isMounted flag
\*   cancelled  cancelAsync was called on its download
\*   held       downloadResumableRef.current is its download
\*   live       the component instance whose state it sets is still mounted
Fetch(pc, file, isMounted, cancelled) ==
    [pc |-> pc, file |-> file, isMounted |-> isMounted, cancelled |-> cancelled,
     held |-> FALSE, live |-> TRUE]

\* `downloadResumableRef.current = ...`: the ref leaves the download it held.
Unheld(t) == [t EXCEPT !.held = FALSE]

UnheldAll(B) ==
    LET S == BagToSet(B)
    IN  [u \in {Unheld(t) : t \in S} |->
            BagCardinality([t \in {x \in S : Unheld(x) = u} |-> B[t]])]

\* A suspended prune invocation.
\*   pc         "read" | "infos" | "delete"
\*   videoFiles the names that passed the filter
\*   toDelete   the entries still to delete, [file, exists]
\*   warned     a deleteAsync of the loop threw ('Cache deletion error')
Prune(pc, videoFiles, toDelete) ==
    [pc |-> pc, videoFiles |-> videoFiles, toDelete |-> toDelete,
     warned |-> FALSE]

\* `fileInfos.sort((a, b) => (a.file > b.file ? 1 : -1))`.
RECURSIVE Sorted(_)
Sorted(S) ==
    IF S = {} THEN <<>>
    ELSE LET m == CHOOSE x \in S : \A y \in S : NameRank(x) <= NameRank(y)
         IN  <<m>> \o Sorted(S \ {m})

\* A slice that keeps one file less.
ToDeleteKeepsTwo(S) ==
    LET sorted == Sorted(S)
    IN  [i \in 1..(Len(sorted) - KeepFiles + 1) |->
            [file |-> sorted[i], exists |-> sorted[i] \in cacheDirectory]]

\* `sorted.slice(0, sorted.length - 3)`, with each entry's `exists`.
ToDelete(S) ==
    LET sorted == Sorted(S)
    IN  [i \in 1..(Len(sorted) - KeepFiles) |->
            [file |-> sorted[i], exists |-> sorted[i] \in cacheDirectory]]

\* `if (isMounted) setCachedVideoUri(uri)`.
SetCachedVideoUri(t, uri) ==
    cachedVideoUri' = IF t.isMounted THEN uri ELSE cachedVideoUri

\* `if (isMounted) { ...; setIsVideoLoading(false) }` and then the finally
\* block, `if (isMounted) setIsDownloading(false)`.
SettledFlags(t) ==
    IF t.isMounted
    THEN [fbFlags EXCEPT !.isVideoLoading = FALSE, !.isDownloading = FALSE]
    ELSE fbFlags

\* `setIsDownloading(true); setDownloadProgress(0)`, with no isMounted
\* check: they change the state of a component that is still mounted.
DownloadingFlags(t) ==
    IF t.live
    THEN [fbFlags EXCEPT !.isDownloading = TRUE, !.downloadProgress = 0]
    ELSE fbFlags

\* The screen is opened for the video named f: the effect calls cacheVideo,
\* which runs up to `await FileSystem.getInfoAsync(localUri)`.
OpenFeedback(f) ==
    /\ ~fbOpen
    /\ BagCardinality(fetches) < MaxFetches
    /\ fbOpen' = TRUE
    /\ videoUriString' = f
    /\ cachedVideoUri' = "null"
    /\ fbFlags' = FlagsStart
    /\ fetches' = fetches (+) SetToBag({Fetch("info", f, TRUE, FALSE)})
    /\ UNCHANGED <<cacheDirectory, prunes>>
    /\ UNCHANGED nonCacheVars

\* After getInfoAsync: a file that exists is used as it is; else the
\* download starts; a throw lands in the outer catch.
CacheInfoReturns(t) ==
    /\ t.pc = "info"
    /\ \/ /\ t.file \in cacheDirectory
          /\ SetCachedVideoUri(t, t.file)
          /\ fbFlags' = SettledFlags(t)
          /\ fetches' = fetches (-) SetToBag({t})
       \/ /\ t.file \notin cacheDirectory
          /\ fbFlags' = DownloadingFlags(t)
          /\ fetches' = UnheldAll(fetches (-) SetToBag({t}))
                           (+) SetToBag({[t EXCEPT !.pc = "download",
                                                   !.held = TRUE]})
          /\ UNCHANGED cachedVideoUri
       \/ /\ SetCachedVideoUri(t, "null")
          /\ fbFlags' = SettledFlags(t)
          /\ fetches' = fetches (-) SetToBag({t})
    /\ UNCHANGED <<cacheDirectory, fbOpen, videoUriString, prunes>>
    /\ UNCHANGED nonCacheVars

\* After `await downloadResumable.downloadAsync()`: the file is in the
\* cache and is given to the player, or the download failed or was
\* cancelled and the player keeps the remote URI; then the prune starts
\* and runs up to `await FileSystem.readDirectoryAsync(cacheDir)`.
DownloadReturns(t) ==
    /\ t.pc = "download"
    /\ BagCardinality(prunes) < MaxPrunes
    /\ \/ /\ ~t.cancelled
          /\ cacheDirectory' = cacheDirectory \cup {t.file}
          /\ SetCachedVideoUri(t, t.file)
       \/ /\ SetCachedVideoUri(t, "null")
          /\ UNCHANGED cacheDirectory
    /\ fbFlags' = SettledFlags(t)
    /\ fetches' = fetches (-) SetToBag({t})
    /\ prunes' = prunes (+) SetToBag({Prune("read", {}, <<>>)})
    /\ UNCHANGED <<fbOpen, videoUriString>>
    /\ UNCHANGED nonCacheVars

\* After readDirectoryAsync: the video names are filtered; with more than
\* three the prune asks for the info of each, else it ends; a throw ends it.
PruneRead(p) ==
    /\ p.pc = "read"
    /\ LET videoFiles == {f \in cacheDirectory : IsVideoName(f)}
       IN  \/ prunes' = IF Cardinality(videoFiles) > KeepFiles
                        THEN (prunes (-) SetToBag({p}))
                                (+) SetToBag({Prune("infos", videoFiles, <<>>)})
                        ELSE prunes (-) SetToBag({p})
           \/ prunes' = prunes (-) SetToBag({p})
    /\ UNCHANGED <<cacheDirectory, fbOpen, videoUriString, cachedVideoUri,
                   fetches, fbFlags>>
    /\ UNCHANGED nonCacheVars

\* After `await Promise.all(... getInfoAsync ...)`: the entries are sorted by
\* name and all but the last three are to be deleted; a throw ends the
\* prune.
PruneInfos(p) ==
    /\ p.pc = "infos"
    /\ \/ prunes' = (prunes (-) SetToBag({p}))
                       (+) SetToBag({Prune("delete", p.videoFiles,
                                           ToDelete(p.videoFiles))})
       \/ prunes' = prunes (-) SetToBag({p})
    /\ UNCHANGED <<cacheDirectory, fbOpen, videoUriString, cachedVideoUri,
                   fetches, fbFlags>>
    /\ UNCHANGED nonCacheVars

\* A deletion loop without the try/catch around deleteAsync: a throw leaves
\* the loop for the outer catch.
PruneDeleteAborts(p) ==
    /\ p.pc = "delete"
    /\ IF p.toDelete = <<>>
       THEN /\ prunes' = prunes (-) SetToBag({p})
            /\ UNCHANGED cacheDirectory
       ELSE \/ /\ cacheDirectory' = IF Head(p.toDelete).exists
                                    THEN cacheDirectory \ {Head(p.toDelete).file}
                                    ELSE cacheDirectory
               /\ prunes' = (prunes (-) SetToBag({p}))
                               (+) SetToBag({[p EXCEPT !.toDelete = Tail(@)]})
            \/ /\ Head(p.toDelete).exists
               /\ UNCHANGED cacheDirectory
               /\ prunes' = prunes (-) SetToBag({p})
    /\ UNCHANGED <<fbOpen, videoUriString, cachedVideoUri, fetches, fbFlags>>
    /\ UNCHANGED nonCacheVars

\* One turn of the deletion loop: an entry that existed is deleted
\* (`deleteAsync(t.uri, { idempotent: true })`) unless deleteAsync throws,
\* which is logged; then the next one follows.
PruneDelete(p) ==
    /\ p.pc = "delete"
    /\ IF p.toDelete = <<>>
       THEN /\ prunes' = prunes (-) SetToBag({p})
            /\ UNCHANGED cacheDirectory
       ELSE \/ /\ cacheDirectory' = IF Head(p.toDelete).exists
                                    THEN cacheDirectory \ {Head(p.toDelete).file}
                                    ELSE cacheDirectory
               /\ prunes' = (prunes (-) SetToBag({p}))
                               (+) SetToBag({[p EXCEPT !.toDelete = Tail(@)]})
            \/ /\ Head(p.toDelete).exists
               /\ UNCHANGED cacheDirectory
               /\ prunes' = (prunes (-) SetToBag({p}))
                               (+) SetToBag({[p EXCEPT !.toDelete = Tail(@),
                                                       !.warned = TRUE]})
    /\ UNCHANGED <<fbOpen, videoUriString, cachedVideoUri, fetches, fbFlags>>
    /\ UNCHANGED nonCacheVars

\* The effect's cleanup with the component still mounted (videoUriString
\* changed): isMounted is cleared, the held download is cancelled.
CleanedUp(t) ==
    [t EXCEPT !.isMounted = FALSE, !.cancelled = (@ \/ t.held), !.held = FALSE]

CleanedUpAll(B) ==
    LET S == BagToSet(B)
    IN  [u \in {CleanedUp(t) : t \in S} |->
            BagCardinality([t \in {x \in S : CleanedUp(x) = u} |-> B[t]])]

\* The effect's cleanup seen from an invocation: isMounted is cleared, and
\* the download the ref holds is cancelled and dropped from the ref.
TornDown(t) ==
    [t EXCEPT !.isMounted = FALSE, !.cancelled = (@ \/ t.held), !.held = FALSE,
              !.live = FALSE]

TornDownAll(B) ==
    LET S == BagToSet(B)
    IN  [u \in {TornDown(t) : t \in S} |->
            BagCardinality([t \in {x \in S : TornDown(x) = u} |-> B[t]])]

\* The screen is left: the effect's cleanup clears isMounted and cancels
\* the download; the component's state is gone.
CloseFeedback ==
    /\ fbOpen
    /\ fbOpen' = FALSE
    /\ videoUriString' = ""
    /\ cachedVideoUri' = "null"
    /\ fbFlags' = FlagsStart
    /\ fetches' = TornDownAll(fetches)
    /\ UNCHANGED <<cacheDirectory, prunes>>
    /\ UNCHANGED nonCacheVars

InitCache ==
    /\ PollStart
    /\ CamStart
    /\ RestStart

NextCache ==
    \/ \E f \in VideoNames : OpenFeedback(f)
    \/ \E t \in BagToSet(fetches) : CacheInfoReturns(t)
    \/ \E t \in BagToSet(fetches) : DownloadReturns(t)
    \/ \E p \in BagToSet(prunes) : PruneRead(p)
    \/ \E p \in BagToSet(prunes) : PruneInfos(p)
    \/ \E p \in BagToSet(prunes) : PruneDelete(p)
    \/ CloseFeedback

SpecCache == InitCache /\ [][NextCache]_vars

(***************************************************************************)
(* Part IV-b: FeedbackScreen, the earlier draft                            *)
(*                                                                         *)
(* src/unnamed/part_002 holds a second FeedbackScreen.  Its caching effect *)
(* (47-98) depends on [videoUriString, cachedVideoUri], has no prune and   *)
(* no mount guard, and its cleanup deletes the file the closure's          *)
(* cachedVideoUri names.                                                   *)
(***************************************************************************)
\* cacheVideo invocations of the draft the model follows at a time.
MaxDraftFetches == 2

\* The videos the draft screen is opened for.
DraftVideos == {"a.mp4", "b.mov"}

NullUri == [dir |-> "null", name |-> ""]

\* `${FileSystem.cacheDirectory}${fileName}`
LocalUri(f) == [dir |-> "cache", name |-> f]

\* videoUriString itself, the fallback of the draft.
RemoteUri(f) == [dir |-> "remote", name |-> f]

\* A cacheVideo invocation of the draft; `live` is whether the component
\* instance whose state it sets is still mounted.
DraftFetch(pc, file, live) == [pc |-> pc, file |-> file, live |-> live]

\* What downloadAsync can end in.
DownloadResults == {"uri", "undefined", "throws"}

\* setCachedVideoUri(uri) called by invocation t: nothing on an unmounted
\* instance, nothing for an equal value, else a render with a changed
\* dependency is scheduled.
DraftSet(t, uri) ==
    IF t.live /\ uri # draft.cachedVideoUri
    THEN [draft EXCEPT !.cachedVideoUri = uri, !.depsChanged = TRUE]
    ELSE draft

\* FileSystem.deleteAsync(uri, { idempotent: true }): a path outside the
\* cache directory (the remote fallback) rejects and the rejection is logged.
DeleteAsync(uri) ==
    IF uri.dir = "cache" THEN cacheDirectory \ {uri.name} ELSE cacheDirectory

\* The cleanup of the effect as committed: it deletes what its closure's
\* cachedVideoUri names, if that is set.
DraftCleanup ==
    IF draft.effectUri # NullUri THEN DeleteAsync(draft.effectUri) ELSE cacheDirectory

\* The draft screen is mounted: the effect runs and calls cacheVideo.
DraftOpen(f) ==
    /\ ~draft.mounted
    /\ BagCardinality(draftFetches) < MaxDraftFetches
    /\ draft' = [mounted |-> TRUE, video |-> f, cachedVideoUri |-> NullUri,
                 effectUri |-> NullUri, depsChanged |-> FALSE]
    /\ draftFetches' = draftFetches (+) SetToBag({DraftFetch("info", f, TRUE)})
    /\ UNCHANGED cacheDirectory
    /\ UNCHANGED nonDraftVars

\* `await FileSystem.getInfoAsync(localUri)` returns or throws.
DraftInfoReturns(t, throws) ==
    /\ t.pc = "info"
    /\ CopiesIn(t, draftFetches) > 0
    /\ IF throws
       THEN /\ draft' = DraftSet(t, RemoteUri(t.file))
            /\ draftFetches' = draftFetches (-) SetToBag({t})
       ELSE IF t.file \in cacheDirectory
       THEN /\ draft' = DraftSet(t, LocalUri(t.file))
            /\ draftFetches' = draftFetches (-) SetToBag({t})
       ELSE /\ draft' = draft
            /\ draftFetches' = (draftFetches (-) SetToBag({t}))
                                  (+) SetToBag({[t EXCEPT !.pc = "download"]})
    /\ UNCHANGED cacheDirectory
    /\ UNCHANGED nonDraftVars

\* `await downloadResumable.downloadAsync()` returns a result, returns
\* undefined, or throws.
DraftDownloadReturns(t, result) ==
    /\ t.pc = "download"
    /\ CopiesIn(t, draftFetches) > 0
    /\ cacheDirectory' = IF result = "uri" THEN cacheDirectory \cup {t.file}
                         ELSE cacheDirectory
    /\ draft' = DraftSet(t, IF result = "uri" THEN LocalUri(t.file)
                            ELSE RemoteUri(t.file))
    /\ draftFetches' = draftFetches (-) SetToBag({t})
    /\ UNCHANGED nonDraftVars

\* The render after cachedVideoUri changed: the previous effect's cleanup
\* runs, then the effect runs again and calls cacheVideo.
DraftRender ==
    /\ draft.mounted
    /\ draft.depsChanged
    /\ BagCardinality(draftFetches) < MaxDraftFetches
    /\ cacheDirectory' = DraftCleanup
    /\ draft' = [draft EXCEPT !.effectUri = draft.cachedVideoUri,
                              !.depsChanged = FALSE]
    /\ draftFetches' = draftFetches
                          (+) SetToBag({DraftFetch("info", draft.video, TRUE)})
    /\ UNCHANGED nonDraftVars

RECURSIVE NotLiveAll(_)
\* Every invocation of B with its component instance unmounted.
NotLiveAll(B) ==
    IF B = EmptyBag THEN EmptyBag
    ELSE LET t == CHOOSE x \in BagToSet(B) : TRUE
         IN  NotLiveAll(B (-) SetToBag({t}))
                (+) SetToBag({[t EXCEPT !.live = FALSE]})

\* The draft screen is unmounted: the cleanup of the last committed effect.
DraftClose ==
    /\ draft.mounted
    /\ cacheDirectory' = DraftCleanup
    /\ draft' = [draft EXCEPT !.mounted = FALSE, !.depsChanged = FALSE]
    /\ draftFetches' = NotLiveAll(draftFetches)
    /\ UNCHANGED nonDraftVars

InitDraft ==
    /\ PollStart
    /\ CamStart
    /\ RestStart

NextDraft ==
    \/ \E f \in DraftVideos : DraftOpen(f)
    \/ \E t \in BagToSet(draftFetches), throws \in BOOLEAN :
           DraftInfoReturns(t, throws)
    \/ \E t \in BagToSet(draftFetches), result \in DownloadResults :
           DraftDownloadReturns(t, result)
    \/ DraftRender
    \/ DraftClose

SpecDraft == InitDraft /\ [][NextDraft]_vars

(***************************************************************************)
(* Part V: PreviewScreen, the upload                                       *)
(*                                                                         *)
(* analyzeVideo (preview.tsx 78-157) builds the form, posts it with axios  *)
(* and either navigates to the processing screen or shows an alert.        *)
(***************************************************************************)
\* The videos a preview screen can hold.
Videos == {"file:///v.mp4", "file:///v.mov"}

\* The job handles the server gives out.
JobIds == {"job1", "job2"}

\* The `error` field of a response body: absent, empty, or a message.
ServerErrors == {Absent, "", "Invalid video"}

\* The HTTP statuses of the model: accepted, another success, two failures.
Statuses == {202, 200, 400, 500}

NoResponse == [status |-> 0, error |-> Absent, message |-> Absent,
               file_id |-> Absent, status_url |-> Absent]

\* What the POST ends in: a response of the server, or no response at all.
\* A 202 carries { message, file_id, status_url }.
Response(status, error, id) ==
    [status |-> status, error |-> error,
     message |-> IF status = 202 THEN "Upload accepted" ELSE Absent,
     file_id |-> IF status = 202 THEN id ELSE Absent,
     status_url |-> IF status = 202 THEN id ELSE Absent]

Outcome(kind, response) == [kind |-> kind, response |-> response]

NoOutcome == Outcome("none", NoResponse)

Outcomes ==
    {Outcome("response", Response(202, Absent, id)) : id \in JobIds}
        \cup {Outcome("response", Response(st, e, Absent)) :
                 st \in Statuses \ {202}, e \in ServerErrors}
        \cup {Outcome("timeout", NoResponse), Outcome("network", NoResponse)}

\* A thrown value: `error.message` and `error.response`.
Thrown(message, response) == [message |-> message, response |-> response]

\* axios.post settles: a 2xx response resolves the promise (the default
\* validateStatus), every other outcome rejects it with an error that
\* carries the response, if there was one.
Resolves(o) ==
    o.kind = "response" /\ o.response.status >= 200 /\ o.response.status < 300

Rejection(o) ==
    CASE o.kind = "timeout" -> Thrown("timeout of 30000ms exceeded", NoResponse)
      [] o.kind = "network" -> Thrown("Network Error", NoResponse)
      [] o.response.status = 400 ->
            Thrown("Request failed with status code 400", o.response)
      [] OTHER ->
            Thrown("Request failed with status code 500", o.response)

\* A value that `||` passes over.
Falsy(v) == v \in {Absent, ""}

\* `error.response?.data?.error || error.message || 'There was an error
\* uploading your video.'`.
Reason(error) ==
    IF ~Falsy(error.response.error) THEN error.response.error
    ELSE IF ~Falsy(error.message) THEN error.message
    ELSE "There was an error uploading your video."

\* `if (response.status === 202)`.
AcceptedLoose(response) == response.status >= 200 /\ response.status < 300

Accepted(response) == response.status = 202

\* A suspended analyzeVideo invocation.
\*   pc       "fetch" | "blob" | "post": the await it is suspended at
\*   video    selectedVideo of the render whose handler was invoked
\*   outcome  what the POST it issued ends in
Upload(pc, video, outcome) == [pc |-> pc, video |-> video, outcome |-> outcome]

\* Every setState of the screen schedules a render.
UpRender ==
    /\ upNeedsRender
    /\ upView' = [selectedVideo |-> selectedVideo, isLoading |-> isLoading]
    /\ upNeedsRender' = FALSE
    /\ UNCHANGED <<selectedVideo, isLoading, previewStatus, uploads, submits,
                   uploadAlerts, uploadNav>>
    /\ UNCHANGED nonUploadVars

\* The route parameter or the picker gives the screen a video.
SelectVideo(v) ==
    /\ selectedVideo # v
    /\ selectedVideo' = v
    /\ upNeedsRender' = TRUE
    /\ UNCHANGED <<isLoading, previewStatus, upView, uploads, submits,
                   uploadAlerts, uploadNav>>
    /\ UNCHANGED nonUploadVars

\* The upload button is pressed (it is disabled without a video and while
\* loading, as of the last render): analyzeVideo runs up to its first
\* await, `fetch(selectedVideo)` on the web and axios.post(o) elsewhere.
analyzeVideo(o) ==
    /\ upView.selectedVideo # "" /\ ~upView.isLoading
    /\ submits < MaxSubmits
    /\ BagCardinality(uploads) < MaxUploads
    /\ submits' = submits + 1
    /\ isLoading' = TRUE
    /\ previewStatus' = "Uploading video..."
    /\ upNeedsRender' = TRUE
    /\ uploads' = uploads (+) SetToBag({
           IF platform = "web"
           THEN Upload("fetch", upView.selectedVideo, NoOutcome)
           ELSE Upload("post", upView.selectedVideo, o)})
    /\ UNCHANGED <<selectedVideo, upView, uploadAlerts, uploadNav>>
    /\ UNCHANGED nonUploadVars

\* catch (error) and finally: the failure is shown and the loading ends.
UploadFailed(t, error) ==
    /\ previewStatus' = ""
    /\ uploadAlerts' = Append(uploadAlerts,
                              [title |-> "Upload Failed", text |-> Reason(error)])
    /\ isLoading' = FALSE
    /\ upNeedsRender' = TRUE
    /\ uploads' = uploads (-) SetToBag({t})
    /\ UNCHANGED <<selectedVideo, upView, submits, uploadNav>>

\* On the web, after `await fetch(selectedVideo)`.
FetchReturns(t, mayThrow) ==
    /\ t.pc = "fetch"
    /\ \/ /\ uploads' = (uploads (-) SetToBag({t}))
                           (+) SetToBag({[t EXCEPT !.pc = "blob"]})
          /\ UNCHANGED <<selectedVideo, isLoading, previewStatus, upView,
                         upNeedsRender, submits, uploadAlerts, uploadNav>>
       \/ /\ mayThrow
          /\ UploadFailed(t, Thrown("Failed to fetch", NoResponse))
    /\ UNCHANGED nonUploadVars

\* On the web, after `await response.blob()`: the form is complete and
\* axios.post(o) is issued.
BlobReturns(t, o, mayThrow) ==
    /\ t.pc = "blob"
    /\ \/ /\ uploads' = (uploads (-) SetToBag({t}))
                           (+) SetToBag({[t EXCEPT !.pc = "post",
                                                   !.outcome = o]})
          /\ UNCHANGED <<selectedVideo, isLoading, previewStatus, upView,
                         upNeedsRender, submits, uploadAlerts, uploadNav>>
       \/ /\ mayThrow
          /\ UploadFailed(t, Thrown("Failed to fetch", NoResponse))
    /\ UNCHANGED nonUploadVars

\* After `await axios.post(...)`: a 202 shows the server's message and
\* navigates to the processing screen; any other response throws
\* 'Unexpected response status'; a rejection is caught as it is.
PostReturns(t) ==
    /\ t.pc = "post"
    /\ IF Resolves(t.outcome)
       THEN IF Accepted(t.outcome.response)
            THEN /\ previewStatus' = t.outcome.response.message
                 /\ uploadAlerts' = Append(uploadAlerts,
                        [title |-> "Success",
                         text |-> t.outcome.response.message])
                 /\ uploadNav' = Append(uploadNav,
                        [videoUri |-> t.video,
                         fileId |-> t.outcome.response.file_id,
                         statusUrl |-> t.outcome.response.status_url])
                 /\ isLoading' = FALSE
                 /\ upNeedsRender' = TRUE
                 /\ uploads' = uploads (-) SetToBag({t})
                 /\ UNCHANGED <<selectedVideo, upView, submits>>
            ELSE UploadFailed(t, Thrown("Unexpected response status",
                                        NoResponse))
       ELSE UploadFailed(t, Rejection(t.outcome))
    /\ UNCHANGED nonUploadVars

InitUpload ==
    /\ PollStart
    /\ CamStart
    /\ CacheStart
    /\ UploadStart
    /\ \E os \in Platforms \cup {"web"} : PersistStart(os)

NextUpload ==
    \/ UpRender
    \/ \E v \in Videos : SelectVideo(v)
    \/ \E o \in Outcomes : analyzeVideo(o)
    \/ \E t \in BagToSet(uploads) : FetchReturns(t, TRUE)
    \/ \E t \in BagToSet(uploads) : \E o \in Outcomes : BlobReturns(t, o, TRUE)
    \/ \E t \in BagToSet(uploads) : PostReturns(t)

SpecUpload == InitUpload /\ [][NextUpload]_vars

(***************************************************************************)
(* Properties of persisting a recording                                    *)
(***************************************************************************)
\* The source URI in normalised form: file:// prefixed on Android.
Normalized(uri) ==
    [scheme |-> (uri.scheme \/ platform = "android"), dir |-> uri.dir,
     name |-> uri.name]

\* C17: the size alone decides: a file larger than 50 MiB is never copied
\* and the URI handed on is the normalised source URI; a file of at most
\* 50 MiB is copied to a new javelin_throw_<millis>.mp4 file, and the URI of
\* that copy is handed on.
C17_PersistBySize ==
    [][ /\ persist.pc = "release" =>
              IF persist.fileInfo.exists
                    /\ persist.fileInfo.size > 50 * 1024 * 1024
              THEN /\ handoffs' = Append(handoffs, Normalized(persist.video))
                   /\ documentFiles' = documentFiles
                   /\ persist'.pc = "idle"
              ELSE /\ persist'.pc = "copy"
                   /\ handoffs' = handoffs
        /\ (persist.pc = "copy" /\ persist'.pc = "idle") =>
              /\ now \notin documentFiles
              /\ documentFiles' = documentFiles \cup {now}
              /\ handoffs' = Append(handoffs, PermanentUri(now))
        /\ documentFiles' # documentFiles =>
              ~(persist.fileInfo.exists
                  /\ persist.fileInfo.size > 50 * 1024 * 1024)
      ]_vars

\* On Android a copy was handed on, and a file one byte above the
\* threshold, recorded under a URI without scheme, is about to be handed on.
C17_Witness ==
    /\ platform = "android"
    /\ Len(handoffs) > 0 /\ handoffs[1].dir = "document"
    /\ persist.pc = "release"
    /\ persist.fileInfo.size = LargeFileBytes + 1
    /\ ~persist.video.scheme

\* C18: when getInfoAsync or copyAsync throws, the attempt does not fail:
\* the camera is released, the normalised source URI is handed to the
\* preview, and every invocation navigates exactly once.
C18_CopyFailureFallsBack ==
    [][ /\ persist'.pc = "fallback" =>
              handoffs' = handoffs /\ documentFiles' = documentFiles
        /\ persist.pc = "fallback" =>
              /\ handoffs' = Append(handoffs, Normalized(persist.video))
              /\ ~cameraHeld'
              /\ persist'.pc = "idle"
              /\ documentFiles' = documentFiles
        /\ Len(handoffs') = now' - (IF persist'.pc = "idle" THEN 0 ELSE 1)
      ]_vars

\* copyAsync threw after the file check and the release in the try block:
\* the catch block awaits its own release, a first recording was handed on.
C18_Witness ==
    /\ persist.pc = "fallback"
    /\ persist.fileInfo.exists
    /\ ~cameraHeld
    /\ Len(handoffs) > 0

(***************************************************************************)
(* Properties of the video cache                                           *)
(***************************************************************************)
\* The files a step removes from the cache directory.
Deleted == cacheDirectory \ cacheDirectory'

\* C16: the prune never deletes a file that a consumer still references:
\* the file the feedback player has been given (cachedVideoUri, the file
\* just downloaded or found in the cache) is never among the files a step
\* of the prune deletes while the screen is open.
C16_PruneSparesReferenced ==
    [][\A f \in Deleted : ~(fbOpen /\ cachedVideoUri = f)]_vars

(***************************************************************************)
(* The store as a whole: persisting recordings next to the cache's prune   *)
(***************************************************************************)
\* The assets under the size threshold.
SmallFileInfos == {i \in FileInfos(Sizes) : i.exists /\ ~IsLargeFile(i)}

\* The videos the feedback screen is opened for while recordings are
\* persisted: one more than the prune keeps.
StoreVideos == {"a.mp4", "b.mov", "c.avi", "d.mkv"}

InitStore == InitCache

NextStore ==
    \/ BeginPersist
    \/ GetInfoReturns(SmallFileInfos, FALSE)
    \/ PersistReleased
    \/ CopyReturns(FALSE)
    \/ \E f \in StoreVideos : persist.pc = "idle" /\ OpenFeedback(f)
    \/ \E t \in BagToSet(fetches) : CacheInfoReturns(t)
    \/ \E t \in BagToSet(fetches) : DownloadReturns(t)
    \/ \E p \in BagToSet(prunes) : PruneRead(p)
    \/ \E p \in BagToSet(prunes) : PruneInfos(p)
    \/ \E p \in BagToSet(prunes) : PruneDelete(p)
    \/ CloseFeedback

SpecStore == InitStore /\ [][NextStore]_vars

\* Every persist call so far handed a copy in the documents directory on.
AllCopied ==
    /\ persist.pc = "idle"
    /\ Len(handoffs) = now
    /\ \A i \in 1..Len(handoffs) : handoffs[i] = PermanentUri(i)

\* C15: after N persist calls with N > 3, each for an asset under the size
\* threshold, exactly 3 copied files remain in the directory the copies are
\* written to, and they are the 3 most recently created (the copies are
\* named by their creation time); the prune has had the time to finish.
C15_CacheBound ==
    (AllCopied /\ now > KeepFiles /\ prunes = EmptyBag /\ fetches = EmptyBag)
        => documentFiles = (now - KeepFiles + 1)..now


(***************************************************************************)
(* Properties of the upload                                                *)
(***************************************************************************)
\* The upload failures surfaced so far.
Failures ==
    Cardinality({i \in DOMAIN uploadAlerts :
                    uploadAlerts[i].title = "Upload Failed"})

\* The outcome is a response with status 202.
Is202(o) == o.kind = "response" /\ o.response.status = 202

\* The job a 202 response creates for the video of the invocation t.
JobOf(t) ==
    [videoUri |-> t.video,
     fileId |-> t.outcome.response.file_id,
     statusUrl |-> t.outcome.response.status_url]

\* An invocation that is suspended before the step and gone after it.
Ends(t) ==
    /\ BagCardinality(uploads') < BagCardinality(uploads)
    /\ CopiesIn(t, uploads') < CopiesIn(t, uploads)

\* C19: submit creates a job and starts the processing step (the push to
\* /processing with the response's file id and status URL) if and only if
\* the upload response has status 202; for any other status, a timeout or a
\* network failure (also one before the POST, on the web) an upload failure
\* is surfaced, no job is created and no polling starts.  Every finished
\* invocation gave exactly one of the two.
C19_JobIffAccepted ==
    /\ [][\A t \in BagToSet(uploads) :
             /\ (PostReturns(t) /\ Is202(t.outcome)) =>
                   /\ uploadNav' = Append(uploadNav, JobOf(t))
                   /\ Failures' = Failures
             /\ (Ends(t) /\ ~(t.pc = "post" /\ Is202(t.outcome))) =>
                   /\ uploadNav' = uploadNav
                   /\ Failures' = Failures + 1]_vars
    /\ [][uploadNav' # uploadNav =>
             \E u \in BagToSet(uploads) : u.pc = "post" /\ Is202(u.outcome)]_vars
    /\ [](Len(uploadNav) + Failures + BagCardinality(uploads) = submits)

\* A job was created and an upload failed on a 2xx response that is not a
\* 202.
C19_Witness ==
    /\ Len(uploadNav) > 0
    /\ \E i \in DOMAIN uploadAlerts :
          uploadAlerts[i].text = "Unexpected response status"

\* The text of the alert a step shows.
Surfaced == uploadAlerts'[Len(uploadAlerts')].text

\* C20: the reason surfaced for a failed upload is the server-provided error
\* message when the failure response carries one, and otherwise the
\* transport error message (checked where there is a transport error).
C20_ReasonPrefersServer ==
    [][\A t \in BagToSet(uploads) :
          (t.pc = "post" /\ PostReturns(t) /\ ~Is202(t.outcome)) =>
             /\ Failures' = Failures + 1
             /\ IF t.outcome.kind = "response" /\ ~Falsy(t.outcome.response.error)
                THEN Surfaced = t.outcome.response.error
                ELSE Resolves(t.outcome)
                        \/ Surfaced = Rejection(t.outcome).message]_vars


(***************************************************************************)
(* The pipeline: the upload of the preview screen hands the job to the     *)
(* processing screen, which polls it and hands the result to the feedback  *)
(***************************************************************************)
\* A route parameter as useLocalSearchParams gives it: a field that was
\* undefined in the push is missing, which the screen reads as falsy.
RouteParam(v) == IF v = Absent THEN "" ELSE v

\* expo-router opens the processing screen for the i-th push of the
\* preview screen (preview.tsx 139-142 is the only push to /processing).
RouteToProcessing(i) ==
    /\ procScreen = "unmounted"
    /\ params = [fileId |-> "", statusUrl |-> ""]
    /\ params' = [fileId |-> RouteParam(uploadNav[i].fileId),
                  statusUrl |-> RouteParam(uploadNav[i].statusUrl)]
    /\ UNCHANGED <<procScreen, interval, timerActive, requests, serverStatus,
                   serverResult, statusMessage, nav, alertsShown, alertsOpen>>
    /\ UNCHANGED <<camVars, restVars>>

\* No processing screen has been routed to yet.
InitPipeline ==
    /\ params = [fileId |-> "", statusUrl |-> ""]
    /\ procScreen = "unmounted"
    /\ interval = 0
    /\ timerActive = FALSE
    /\ requests = [s \in Slots |-> Free]
    /\ serverStatus = "processing"
    /\ serverResult = "none"
    /\ statusMessage = InitialMessage
    /\ nav = <<>>
    /\ alertsShown = 0
    /\ alertsOpen = 0
    /\ CamStart
    /\ RestStart

\* The outcomes of the pipeline's uploads: the bodies' error texts, which
\* the order of the events does not depend on, are left out.
PipelineOutcomes == {o \in Outcomes : o.response.error = Absent}

NextPipeline ==
    \/ UpRender
    \/ \E v \in Videos : SelectVideo(v)
    \/ \E o \in PipelineOutcomes : analyzeVideo(o)
    \/ \E t \in BagToSet(uploads) : PostReturns(t)
    \/ \E i \in DOMAIN uploadNav : RouteToProcessing(i)
    \/ MountProcessing
    \/ \E s \in Slots : IntervalFire(s)
    \/ ServerFinish
    \/ \E s \in Slots : ServerRespond(s)
    \/ \E s \in Slots : RequestFails(s)
    \/ \E s \in Slots : Deliver(s)
    \/ AlertOK
    \/ UnmountProcessing

SpecPipeline == InitPipeline /\ [][NextPipeline]_vars

\* The step pushes the feedback route.
FeedbackPushed ==
    Len(nav') = Len(nav) + 1 /\ nav'[Len(nav')].to = "feedback"

\* The step resumes a callback with a `completed` status response.
CompletedDelivered ==
    \E s \in Slots :
        /\ requests[s].state = "answered" /\ requests[s].status = "completed"
        /\ requests'[s] = Free

\* The job the polling screen works on is the one a 202 response created.
PollsCreatedJob ==
    \E i \in DOMAIN uploadNav :
        /\ uploadNav[i].fileId \in JobIds
        /\ params.fileId = uploadNav[i].fileId
        /\ params.statusUrl = uploadNav[i].statusUrl

\* C21: across the pipeline events occur only in order: an upload is issued
\* only for a selected or recorded video; a status query is issued only
\* after an upload was answered with 202 and uses that response's file id
\* and status URL; the navigation to the feedback happens only after a
\* `completed` status response.
C21_PipelineOrder ==
    /\ [](\A t \in BagToSet(uploads) : t.video \in Videos)
    /\ [][uploadNav' # uploadNav =>
             \E t \in BagToSet(uploads) :
                 /\ t.pc = "post" /\ Is202(t.outcome)
                 /\ uploadNav' = Append(uploadNav, JobOf(t))]_vars
    /\ [][QueryIssued => PollsCreatedJob]_vars
    /\ [](timerActive => PollsCreatedJob)
    /\ [][FeedbackPushed => CompletedDelivered]_vars

\* The whole pipeline ran: a job was created, polled and handed on.
C21_Witness ==
    /\ PollsCreatedJob
    /\ FeedbackPushes # {}


\* The invocation t of a handler returns in this step.
Returns(t) == tasks' = Finish(t)

CloseReturns ==
    \/ closeButton /\ refs.camera = "null"
    \/ \E t \in Suspended : CloseReleased(t)

\* C23: release can be invoked from every state; when it is invoked while a
\* recording is active (the close button is pressed during a recording), the
\* recording is stopped and the session ends idle: not recording, no device
\* reference, not ready.
C23_CloseEndsIdle ==
    [][CloseReturns =>
          /\ ActiveRecordings' = {}
          /\ ~state'.isRecording
          /\ refs'.camera = "null"
          /\ ~state'.cameraReady]_vars


\* The user is back on the capture screen after a recording was handed to
\* the preview, and nothing is pending: no handler is suspended, no render
\* is scheduled and no camera-ready event is due.
ReturnedAndSettled ==
    /\ CameraActive
    /\ Pushes > 0
    /\ Quiescent
    /\ ~readyPending

\* C24: after a successful recording has released the camera and navigated
\* to the preview, returning to the capture screen re-acquires the device:
\* the session becomes ready again, so that a new startRecording is
\* accepted.  Once everything that was pending has happened, the session is
\* ready.
C24_ReadyAgainAfterReturn ==
    ReturnedAndSettled => (state.cameraReady /\ StartGuard(view))


(***************************************************************************)
(* Capture and upload attempts of one session: the capture screen, and     *)
(* the preview screen once the capture screen has handed a recording on    *)
(***************************************************************************)
\* The preview screen has not been used yet.
UploadIdle == selectedVideo = "" /\ submits = 0 /\ ~upNeedsRender

\* The user is on the preview screen after the first recording was handed
\* on, and the capture screen is at rest.
OnPreview ==
    /\ camMounted /\ camView = "preview" /\ Quiescent
    /\ Pushes = 1 /\ ActiveRecordings = {}

\* The video the capture screen handed to the preview.
HandedVideo == "file:///v.mp4"

InitAttempts == InitCam

NextAttempts ==
    \/ UploadIdle /\ NextCam
    \/ OnPreview /\ UpRender
    \/ OnPreview /\ SelectVideo(HandedVideo)
    \/ OnPreview /\ \E o \in PipelineOutcomes : analyzeVideo(o)
    \/ OnPreview /\ \E t \in BagToSet(uploads) : PostReturns(t)

SpecAttempts == InitAttempts /\ [][NextAttempts]_vars

\* The invocation t of stopRecording returns through the too-short branch,
\* the outer catch (a failed underlying stop, a rejected recording) or the
\* no-URI branch.
CaptureFails(t) ==
    /\ t.kind = "stop"
    /\ t.pc \in {"short_stop", "short_promise", "stop", "promise"}
    /\ StopShortResume(t) \/ StopShortPromise(t) \/ StopResume(t) \/ StopPromise(t)
    /\ Returns(t)

\* C25: every failure is scoped to the current attempt: after a too-short
\* recording, a failed underlying stop, a recording that returned no video
\* URI, or a failed upload, the screen is back in a state that accepts a new
\* attempt: on the capture screen isRecording is false and the camera
\* reference and the readiness are kept (and the screen is not left); on
\* the preview screen the loading flag is false.
C25_FailureScopedToAttempt ==
    /\ [][\A t \in Suspended : CaptureFails(t) =>
             /\ camMounted => ~state'.isRecording
             /\ refs'.recordingPromise = 0 /\ refs'.startTime = 0
             /\ refs'.camera = refs.camera
             /\ state'.cameraReady = state.cameraReady
             /\ camView' = camView /\ camNav' = camNav]_vars
    /\ [][Failures' # Failures => ~isLoading' /\ uploadNav' = uploadNav]_vars

\* The first capture attempt failed (its recording gave no video or was
\* rejected), the next one was accepted and handed to the preview, and an
\* upload failed there and left the button free again.
C25_Witness ==
    /\ recordings[1].st \in {"undefined", "rejected"}
    /\ Pushes = 1
    /\ Failures > 0 /\ ~isLoading /\ ~upView.isLoading /\ uploads = EmptyBag

\* A handler is stopping a recording: it is suspended at the device's
\* stopRecording or at the recording promise, before it clears the state.
BeingStopped ==
    \E t \in Suspended :
        t.pc \in {"stop", "promise", "short_stop", "short_promise",
                  "t_stop", "t_promise"}

\* C26: in every reachable state of the capture screen the start timestamp
\* is set if and only if a recording is active or being stopped: it is set
\* when the recording begins and cleared on every path that leaves the
\* recording state, including a start that fails.
C26_StartTimeIffRecording ==
    camMounted =>
        (refs.startTime # 0 <=> (state.isRecording \/ BeingStopped))


\* The URI the step hands to the preview.
HandedOn == handoffs'[Len(handoffs')]

Teardown ==
    \/ fbOpen /\ ~fbOpen'
    \/ draft.mounted /\ ~draft'.mounted
    \/ draft.mounted /\ draft.depsChanged /\ ~draft'.depsChanged

\* C28: tearing down the feedback screen (the effect's cleanup on unmount or
\* on a change of the effect's dependencies) never deletes the cached video
\* file: no file of the cache directory is gone after a teardown step.
C28_TeardownKeepsCache == [][Teardown => cacheDirectory \subseteq cacheDirectory']_vars


\* C29: no automatic retry is performed on upload: an invocation of
\* analyzeVideo whose POST has returned ends, whatever the outcome, without
\* issuing another; and while an upload is in flight no second upload is
\* started.
C29_NoSecondUpload ==
    /\ [][\A t \in BagToSet(uploads) :
             (t.pc = "post" /\ CopiesIn(t, uploads') < CopiesIn(t, uploads))
                => BagCardinality(uploads') = BagCardinality(uploads) - 1]_vars
    /\ [][BagCardinality(uploads') > BagCardinality(uploads)
             => uploads = EmptyBag]_vars


\* One prune run over each possible cache directory, nothing else running.
InitPrune ==
    /\ PollStart
    /\ CamStart
    /\ PersistStart("ios")
    /\ UploadStart
    /\ DraftStart
    /\ cacheDirectory \in SUBSET FileNames
    /\ fbOpen = FALSE
    /\ videoUriString = ""
    /\ cachedVideoUri = "null"
    /\ fetches = EmptyBag
    /\ fbFlags = FlagsStart
    /\ prunes = SetToBag({Prune("read", {}, <<>>)})

NextPrune ==
    \/ \E p \in BagToSet(prunes) : PruneRead(p)
    \/ \E p \in BagToSet(prunes) : PruneInfos(p)
    \/ \E p \in BagToSet(prunes) : PruneDelete(p)

SpecPrune == InitPrune /\ [][NextPrune]_vars

\* The files of a directory listing with a video extension.
VideosIn(dir) == {f \in dir : f \in {"E.MP4", "a.mp4", "b.mov", "c.avi", "d.mkv"}}

\* The last three of S in name order: those with fewer than three after them.
LastThree(S) ==
    {f \in S : Cardinality({g \in S : NameRank(g) > NameRank(f)}) < 3}

\* The files a prune still has on its deletion list.
Listed(p) == {p.toDelete[i].file : i \in DOMAIN p.toDelete}

\* The prune invocation p returns in this step.
PruneEnds(p) == CopiesIn(p, prunes) > 0 /\ prunes' = prunes (-) SetToBag({p})

C31_ConcurrentPrunes ==
    /\ [][Cardinality(VideosIn(cacheDirectory)) >= 3
             => Cardinality(VideosIn(cacheDirectory')) >= 3]_vars
    /\ [][\A p \in BagToSet(prunes) :
             (p.pc = "delete" /\ PruneEnds(p)) => p.toDelete = <<>>]_vars
    /\ [][\A p \in BagToSet(prunes) :
             (/\ p.pc = "delete" /\ p.toDelete # <<>>
              /\ CopiesIn(p, prunes') < CopiesIn(p, prunes)
              /\ Head(p.toDelete).file \notin cacheDirectory)
                => cacheDirectory' = cacheDirectory]_vars

\* Two runs that read the same four videos are both through their loops;
\* one of them found its entry already deleted by the other.
C31_Witness ==
    /\ Cardinality(VideosIn(cacheDirectory)) = 3
    /\ \E p \in BagToSet(prunes) :
          /\ CopiesIn(p, prunes) = 2
          /\ p.pc = "delete" /\ p.toDelete = <<>> /\ ~p.warned
          /\ Cardinality(p.videoFiles) = 4


(***************************************************************************)
(* CameraScreen: the permission gates                                      *)
(*                                                                         *)
(* camera.tsx 58-92: while a permission hook has not answered the screen   *)
(* renders an empty view; without the camera permission, then without the  *)
(* microphone permission, it renders a request button; else the capture    *)
(* view with the CameraView.                                               *)
(***************************************************************************)
\* A permission hook holds null until it has answered, then a response with
\* `granted` false or true: what the user or the system answers.
PermissionAnswers == {"denied", "granted"}

\* A render that forgets the microphone gate.
GateCameraOnly(p) ==
    IF p.camera = "null" \/ p.microphone = "null" THEN "blank"
    ELSE IF p.camera # "granted" THEN "camera"
    ELSE "capture"

\* What the component renders for the permissions p.
Gate(p) ==
    IF p.camera = "null" \/ p.microphone = "null" THEN "blank"
    ELSE IF p.camera # "granted" THEN "camera"
    ELSE IF p.microphone # "granted" THEN "microphone"
    ELSE "capture"

BothGranted == permission.camera = "granted" /\ permission.microphone = "granted"

\* useCameraPermissions answers for the first time.
CameraPermissionLoaded(a) ==
    /\ permission.camera = "null"
    /\ permission' = [permission EXCEPT !.camera = a]
    /\ gateNeedsRender' = TRUE
    /\ UNCHANGED gate
    /\ UNCHANGED <<pollVars, camVars, persistVars, cacheVars, draftVars, uploadVars,
                   stepVars, engineVars, formVars>>

\* useMicrophonePermissions answers for the first time.
MicrophonePermissionLoaded(a) ==
    /\ permission.microphone = "null"
    /\ permission' = [permission EXCEPT !.microphone = a]
    /\ gateNeedsRender' = TRUE
    /\ UNCHANGED gate
    /\ UNCHANGED <<pollVars, camVars, persistVars, cacheVars, draftVars, uploadVars,
                   stepVars, engineVars, formVars>>

\* The 'Grant Permission' button of the camera gate is pressed and answered.
requestCameraPermission(a) ==
    /\ gate = "camera"
    /\ permission' = [permission EXCEPT !.camera = a]
    /\ gateNeedsRender' = (gateNeedsRender \/ permission' # permission)
    /\ UNCHANGED gate
    /\ UNCHANGED <<pollVars, camVars, persistVars, cacheVars, draftVars, uploadVars,
                   stepVars, engineVars, formVars>>

\* The 'Grant Permission' button of the microphone gate is pressed and
\* answered.
requestMicrophonePermission(a) ==
    /\ gate = "microphone"
    /\ permission' = [permission EXCEPT !.microphone = a]
    /\ gateNeedsRender' = (gateNeedsRender \/ permission' # permission)
    /\ UNCHANGED gate
    /\ UNCHANGED <<pollVars, camVars, persistVars, cacheVars, draftVars, uploadVars,
                   stepVars, engineVars, formVars>>

\* The render after a permission changed.  The first render of the capture
\* view mounts the CameraView: its ref callback is called and the native
\* camera will report ready.
GateRender ==
    /\ gateNeedsRender
    /\ gateNeedsRender' = FALSE
    /\ gate' = Gate(permission)
    /\ IF gate' = "capture" /\ gate # "capture"
       THEN /\ refs' = RefCallback(refs, "view")
            /\ readyPending' = TRUE
       ELSE UNCHANGED <<refs, readyPending>>
    /\ UNCHANGED permission
    /\ UNCHANGED <<camMounted, camView, state, view, needsRender, clock,
                   recordings, tasks, camNav>>
    /\ UNCHANGED <<pollVars, persistVars, cacheVars, draftVars, uploadVars,
                   stepVars, engineVars, formVars>>

\* The screen is mounted and the permission hooks have not answered yet.
InitPermissions ==
    /\ PollStart
    /\ RestStart
    /\ permission = [camera |-> "null", microphone |-> "null"]
    /\ gate = "blank"
    /\ gateNeedsRender = FALSE
    /\ camMounted = TRUE
    /\ camView = "camera"
    /\ state = [facing |-> "back", isRecording |-> FALSE, cameraReady |-> FALSE]
    /\ view = state
    /\ needsRender = FALSE
    /\ refs = [camera |-> "null", recordingPromise |-> 0, startTime |-> 0]
    /\ clock = 1
    /\ recordings = [r \in RecIds |-> Unused]
    /\ readyPending = FALSE
    /\ tasks = EmptyBag
    /\ camNav = EmptyBag

\* The handlers of the capture view exist once that view is rendered.
NextPermissions ==
    \/ \E a \in PermissionAnswers : CameraPermissionLoaded(a)
    \/ \E a \in PermissionAnswers : MicrophonePermissionLoaded(a)
    \/ \E a \in PermissionAnswers : requestCameraPermission(a)
    \/ \E a \in PermissionAnswers : requestMicrophonePermission(a)
    \/ GateRender
    \/ gate = "capture" /\ handleCameraReady
    \/ gate = "capture" /\ Render
    \/ gate = "capture" /\ startRecording
    \/ gate = "capture" /\ Tick
    \/ gate = "capture" /\ stopRecording
    \/ gate = "capture" /\ \E t \in Suspended : StopShortResume(t)
    \/ gate = "capture" /\ \E t \in Suspended : StopShortPromise(t)
    \/ gate = "capture" /\ \E r \in RecIds : AutoStop(r)

SpecPermissions == InitPermissions /\ [][NextPermissions]_vars

\* A step towards the capture view: a permission or the rendered gate changes.
GateProgress ==
    /\ NextPermissions
    /\ permission' # permission \/ gate' # gate

\* C32: no recording can start while camera or microphone permission is not
\* granted: without both, the capture view is not rendered, there is no
\* CameraView, nothing records and no step changes the capture state; the
\* state is not terminal (a hook's answer, a request or the render can
\* still follow); and with both granted and rendered the capture view with
\* its CameraView is what the screen shows.
C32_NoCaptureWithoutPermission ==
    /\ [](~BothGranted =>
             /\ gate # "capture"
             /\ refs.camera = "null" /\ ~readyPending
             /\ ~state.isRecording /\ ActiveRecordings = {}
             /\ tasks = EmptyBag)
    /\ [][~BothGranted => UNCHANGED <<state, refs, recordings, tasks, camNav>>]_vars
    /\ []((gate = "camera" /\ ~gateNeedsRender) => permission.camera = "denied")
    /\ []((gate = "microphone" /\ ~gateNeedsRender) =>
             permission.camera = "granted" /\ permission.microphone = "denied")
    /\ [](~BothGranted => ENABLED GateProgress)
    /\ []((BothGranted /\ ~gateNeedsRender) =>
             (gate = "capture" /\ refs.camera = "view"))

\* Both permissions were granted and a recording is in progress.
C32_Witness ==
    /\ BothGranted
    /\ state.isRecording
    /\ ActiveRecordings # {}


(***************************************************************************)
(* ProcessingScreen: the step animation                                    *)
(*                                                                         *)
(* processing.tsx 46-77: an effect without dependencies and without a      *)
(* cleanup starts animateSteps, a loop over the four steps that sets       *)
(* currentStep, starts the animations and awaits a timeout of the step's   *)
(* duration; `i = (i + 1) % steps.length` keeps i below steps.length.      *)
(***************************************************************************)
\* steps.length
StepCount == 4

\* `setCurrentStep(i)`: a no-op on a component that is no longer mounted.
SetCurrentStep(i) == IF procScreen = "mounted" THEN i ELSE currentStep

\* The effect runs after the mount: animateSteps up to its first await.
animateSteps ==
    /\ procScreen = "mounted"
    /\ ~stepLoop.started
    /\ currentStep' = SetCurrentStep(0)
    /\ stepLoop' = [started |-> TRUE, i |-> 0, timeout |-> TRUE]
    /\ UNCHANGED <<pollVars, camVars, persistVars, cacheVars, draftVars,
                   uploadVars, permVars, engineVars, formVars>>

\* The timeout fires: `i = (i + 1) % steps.length`, and since i stays below
\* steps.length the loop goes round again up to the next timeout.
StepTimeout ==
    /\ stepLoop.timeout
    /\ LET i == (stepLoop.i + 1) % StepCount
       IN  IF i < StepCount
           THEN /\ currentStep' = SetCurrentStep(i)
                /\ stepLoop' = [stepLoop EXCEPT !.i = i]
           ELSE /\ stepLoop' = [stepLoop EXCEPT !.i = i, !.timeout = FALSE]
                /\ UNCHANGED currentStep
    /\ UNCHANGED <<pollVars, camVars, persistVars, cacheVars, draftVars,
                   uploadVars, permVars, engineVars, formVars>>

InitSteps ==
    /\ PollStart
    /\ CamStart
    /\ RestStart

NextSteps ==
    \/ NextPoll
    \/ animateSteps
    \/ StepTimeout

SpecSteps == InitSteps /\ [][NextSteps]_vars

\* The job has reached a terminal state (the interval was set and is
\* cancelled) or the screen has been torn down.
PollingOver == procScreen = "gone" \/ (interval # 0 /\ ~timerActive)

\* C33: the processing screen leaks no timers: once the job has reached a
\* terminal state or the screen has been torn down, the step-animation loop
\* has no timeout pending, schedules none and updates no state.
C33_NoLeakedStepTimers ==
    /\ [][PollingOver => UNCHANGED <<currentStep, stepLoop>>]_vars
    /\ [](procScreen = "gone" => ~stepLoop.timeout)


(***************************************************************************)
(* FeedbackScreen: the caching effect over the life of one screen          *)
(*                                                                         *)
(* The effect depends on [videoUriString] (splash.tsx 176-299): a change   *)
(* of the route parameter runs its cleanup and then the effect again, on   *)
(* the same component.  The download's progress callback sets              *)
(* downloadProgress.                                                       *)
(***************************************************************************)
\* The videos the screen is shown for.
FeedbackVideos == {"a.mp4", "b.mov"}

\* videoUriString changes on the mounted screen: the cleanup of the effect,
\* then the effect with the new value; the component's state stays.
ChangeVideo(f) ==
    /\ fbOpen
    /\ f # videoUriString
    /\ BagCardinality(fetches) < MaxFetches
    /\ videoUriString' = f
    /\ fetches' = CleanedUpAll(fetches) (+) SetToBag({Fetch("info", f, TRUE, FALSE)})
    /\ UNCHANGED <<cacheDirectory, fbOpen, cachedVideoUri, prunes, fbFlags>>
    /\ UNCHANGED nonCacheVars

\* The progress callback of a running download:
\* `if (isMounted) setDownloadProgress(p)`, p above 0.
DownloadProgress(t) ==
    /\ t.pc = "download"
    /\ ~t.cancelled
    /\ CopiesIn(t, fetches) > 0
    /\ fbFlags' = IF t.isMounted THEN [fbFlags EXCEPT !.downloadProgress = 1]
                  ELSE fbFlags
    /\ fbFlags' # fbFlags
    /\ UNCHANGED <<cacheDirectory, fbOpen, videoUriString, cachedVideoUri,
                   fetches, prunes>>
    /\ UNCHANGED nonCacheVars

\* The prune runs to its end in the background; its steps are not followed
\* here.
InitFeedback == InitCache

NextFeedback ==
    \/ \E f \in FeedbackVideos : OpenFeedback(f)
    \/ \E f \in FeedbackVideos : ChangeVideo(f)
    \/ \E t \in BagToSet(fetches) : CacheInfoReturns(t)
    \/ \E t \in BagToSet(fetches) : DownloadReturns(t)
    \/ \E t \in BagToSet(fetches) : DownloadProgress(t)
    \/ \E p \in BagToSet(prunes) : PruneRead(p)
    \/ CloseFeedback

SpecFeedback == InitFeedback /\ [][NextFeedback]_vars

\* A step of the cacheVideo invocation t: it leaves the await it was at.
Resumes(t) ==
    /\ CopiesIn(t, fetches') < CopiesIn(t, fetches)
    /\ fbOpen' = fbOpen
    /\ videoUriString' = videoUriString

\* C34: after the caching effect has been cleaned up its download in flight
\* is cancelled, and what the cleaned-up invocation does later (completion,
\* failure, progress) changes neither the cached URI nor the loading flag,
\* the downloading flag or the progress.
C34_CleanedUpIsInert ==
    /\ [](\A t \in BagToSet(fetches) :
             (~t.isMounted /\ t.pc = "download") => t.cancelled)
    /\ [][\A t \in BagToSet(fetches) :
             (~t.isMounted /\ Resumes(t)) => UNCHANGED <<cachedVideoUri, fbFlags>>]_vars


\* The download of invocation t returns without a file: it failed or was
\* cancelled.
DownloadFails(t) ==
    /\ t.pc = "download"
    /\ Resumes(t)
    /\ t.file \notin cacheDirectory'

\* No cacheVideo invocation is pending on the mounted component.
NonePending(B) == \A u \in BagToSet(B) : ~u.live

\* The Video is rendered, in place of the loading overlay, when neither flag
\* is set.
PlayerShown == ~fbFlags.isDownloading /\ ~fbFlags.isVideoLoading

\* C35: if the download fails or is cancelled the screen does not fail: the
\* step records no local cached URI, and when no other invocation is pending
\* on the screen the loading and downloading flags are false after it, so
\* that the player is shown; with no cached URI its source is the remote
\* video URL.
C35_FailedDownloadFallsBack ==
    [][\A t \in BagToSet(fetches) : (t.live /\ DownloadFails(t)) =>
          /\ cachedVideoUri' \in {cachedVideoUri, "null"}
          /\ t.isMounted => cachedVideoUri' = "null"
          /\ NonePending(fetches') => PlayerShown']_vars



(***************************************************************************)
(* Part IX: AIAnalysisEngine (src/components/AIAnalysisEngine.ts) and the  *)
(* version of the class that tracks its timeouts (src/unnamed/part_003)    *)
(***************************************************************************)

\* The invocations of initialize and processVideo suspended at one time.
MaxCalls == 2

\* extractVideoFrames returns 60 mock frames.
MockFrames == 60

\* `if (poseSequence.length >= 20)`
MinPoseFrames == 20

nonEngineVars == <<pollVars, camVars, persistVars, cacheVars, draftVars,
                   uploadVars, permVars, stepVars, formVars>>

\* An invocation suspended on `await new Promise(... setTimeout ...)`: which
\* public method was called, the await it is at, the loop index, and whether
\* the timeout is still scheduled.
Call(op, pc, n) == [op |-> op, pc |-> pc, n |-> n, timer |-> "pending"]

\* The invocation ends: its promise resolves or rejects.
Settle(c, how) ==
    /\ calls' = calls (-) SetToBag({c})
    /\ settled' = how

\* The invocation goes on to its next await.
Await(c, pc, n) ==
    /\ calls' = (calls (-) SetToBag({c})) (+) SetToBag({Call(c.op, pc, n)})
    /\ UNCHANGED settled

\* detectAthlete, extractPoseLandmarks and analyzeTechnique as processVideo
\* calls them: `if (!this.isInitialized) throw`, else on to the timeout.
\* processVideo's catch passes the error on.
Guarded(c, pc, n) ==
    IF ~isInitialized
    THEN Settle(c, "not initialized")
    ELSE Await(c, pc, n)

\* Step 4 of processVideo: every mock detection has a bounding box, so the
\* pose sequence is as long as the frames.
AnalyzeStep(c) ==
    IF MockFrames >= MinPoseFrames
    THEN Guarded(c, "analyze", 0)
    ELSE Settle(c, "insufficient pose data")

\* Step 3 of processVideo, at detection i.
PoseStep(c, i) ==
    IF i < MockFrames
    THEN Guarded(c, "pose", i)
    ELSE AnalyzeStep(c)

\* Step 2 of processVideo, at frame i.
DetectStep(c, i) ==
    IF i < MockFrames
    THEN Guarded(c, "detect", i)
    ELSE PoseStep(c, 0)

Waiting(pc) == {c \in BagToSet(calls) : c.pc = pc /\ c.timer = "pending"}

\* initialize() called from outside, up to the timeout of
\* loadTensorFlowLiteModel.
initialize ==
    /\ BagCardinality(calls) < MaxCalls
    /\ calls' = calls (+) SetToBag({Call("initialize", "loadModel", 0)})
    /\ UNCHANGED <<isInitialized, model, poseDetector, settled>>
    /\ UNCHANGED nonEngineVars

\* processVideo(videoUri) up to its first await: initialize() when the engine
\* is not initialized, else extractVideoFrames.
processVideo ==
    /\ BagCardinality(calls) < MaxCalls
    /\ calls' = calls (+) SetToBag({Call("processVideo",
                    IF isInitialized THEN "frames" ELSE "loadModel", 0)})
    /\ UNCHANGED <<isInitialized, model, poseDetector, settled>>
    /\ UNCHANGED nonEngineVars

\* The timeout of loadTensorFlowLiteModel fires; initializeMediaPipePose
\* starts its own.
ModelLoaded ==
    \E c \in Waiting("loadModel") :
        /\ model' = "loaded"
        /\ Await(c, "initPose", 0)
        /\ UNCHANGED <<isInitialized, poseDetector>>
        /\ UNCHANGED nonEngineVars

\* The timeout of initializeMediaPipePose fires: initialize sets
\* isInitialized and returns; processVideo goes on to extractVideoFrames.
PoseInitialized ==
    \E c \in Waiting("initPose") :
        /\ poseDetector' = "initialized"
        /\ isInitialized' = TRUE
        /\ IF c.op = "initialize"
           THEN Settle(c, "resolved")
           ELSE Await(c, "frames", 0)
        /\ UNCHANGED model
        /\ UNCHANGED nonEngineVars

\* The timeout of extractVideoFrames fires; the first detectAthlete is
\* called.
FramesExtracted ==
    \E c \in Waiting("frames") :
        /\ DetectStep(c, 0)
        /\ UNCHANGED <<isInitialized, model, poseDetector>>
        /\ UNCHANGED nonEngineVars

\* The timeout of a detectAthlete fires: the next frame, or the first
\* extractPoseLandmarks.
AthleteDetected ==
    \E c \in Waiting("detect") :
        /\ DetectStep(c, c.n + 1)
        /\ UNCHANGED <<isInitialized, model, poseDetector>>
        /\ UNCHANGED nonEngineVars

\* The timeout of an extractPoseLandmarks fires: the next detection, or
\* analyzeTechnique.
PoseExtracted ==
    \E c \in Waiting("pose") :
        /\ PoseStep(c, c.n + 1)
        /\ UNCHANGED <<isInitialized, model, poseDetector>>
        /\ UNCHANGED nonEngineVars

\* The timeout of analyzeTechnique fires: processVideo returns the result.
TechniqueAnalyzed ==
    \E c \in Waiting("analyze") :
        /\ Settle(c, "resolved")
        /\ UNCHANGED <<isInitialized, model, poseDetector>>
        /\ UNCHANGED nonEngineVars

\* dispose() of AIAnalysisEngine.ts (the feedback screen calls it when it
\* unmounts, splash.tsx:302-313): the three fields are reset, the pending
\* timeouts are not touched.
dispose ==
    /\ model' = "null"
    /\ poseDetector' = "null"
    /\ isInitialized' = FALSE
    /\ UNCHANGED <<calls, settled>>
    /\ UNCHANGED nonEngineVars

\* `this.timeoutIds.forEach(clearTimeout)`: every timeout created so far is
\* cleared, and the promise that waits for it is never settled.
ClearTimeouts(B) ==
    LET cleared(c) == [c EXCEPT !.timer = "cleared"]
        S == {cleared(c) : c \in BagToSet(B)}
    IN  [d \in S |-> CopiesIn(d, B) + CopiesIn([d EXCEPT !.timer = "pending"], B)]

\* dispose() of the version that records its timeouts in timeoutIds
\* (part_003:549-557).
disposeTracked ==
    /\ calls' = ClearTimeouts(calls)
    /\ model' = "null"
    /\ poseDetector' = "null"
    /\ isInitialized' = FALSE
    /\ UNCHANGED settled
    /\ UNCHANGED nonEngineVars

InitEngine ==
    /\ PollStart
    /\ CamStart
    /\ RestStart

EngineSteps ==
    \/ initialize
    \/ processVideo
    \/ ModelLoaded
    \/ PoseInitialized
    \/ FramesExtracted
    \/ AthleteDetected
    \/ PoseExtracted
    \/ TechniqueAnalyzed

NextEngine ==
    \/ EngineSteps
    \/ dispose

SpecEngine == InitEngine /\ [][NextEngine]_vars

NextTracked ==
    \/ EngineSteps
    \/ disposeTracked

SpecTracked == InitEngine /\ [][NextTracked]_vars

\* C37: isInitialized is true only if the model and the pose detector are
\* both loaded.
C37_InitializedMeansLoaded ==
    isInitialized => (model = "loaded" /\ poseDetector = "initialized")

\* C36: an invocation of processVideo that has not ended waits for a timeout
\* that is still scheduled, so that it goes on and ends.
C36_ProcessVideoGoesOn ==
    \A c \in BagToSet(calls) : c.op = "processVideo" => c.timer = "pending"


(***************************************************************************)
(* Part X: the `video` part of analyzeVideo's multipart body (preview.tsx) *)
(***************************************************************************)

\* The longest URI tried.
MaxUriLen == 5

\* The characters the URIs are made of: enough for the extensions .mov and
\* .avi, for an upper-case letter and for names without a dot.
UriChars == {".", "a", "i", "m", "o", "v", "M"}

Uris == UNION {[1..n -> UriChars] : n \in 1..MaxUriLen}

\* The values of Platform.OS.
FormPlatforms == {"web", "ios", "android"}

\* The type of the Blob that `await response.blob()` gives: the content type
\* the fetch of the URI reported, "" when it reported none.
BlobTypes == {"", "video/mp4", "video/quicktime"}

\* String.prototype.endsWith
endsWith(s, suffix) ==
    /\ Len(s) >= Len(suffix)
    /\ SubSeq(s, Len(s) - Len(suffix) + 1, Len(s)) = suffix

\* The if/else-if both branches of analyzeVideo run on selectedVideo.
mimeType(uri) ==
    IF endsWith(uri, <<".", "m", "o", "v">>) THEN "video/quicktime"
    ELSE IF endsWith(uri, <<".", "a", "v", "i">>) THEN "video/x-msvideo"
    ELSE "video/mp4"

fileName(uri) ==
    IF endsWith(uri, <<".", "m", "o", "v">>) THEN "video.mov"
    ELSE IF endsWith(uri, <<".", "a", "v", "i">>) THEN "video.avi"
    ELSE "video.mp4"

\* The web branch: `formData.append('video', blob, fileName)`. The part
\* carries the blob's own type; mimeType is computed and only logged.
AppendBlob(blobType) ==
    /\ platform = "web"
    /\ formData = NoPart
    /\ formData' = [type |-> blobType, name |-> fileName(formUri)]
    /\ UNCHANGED formUri
    /\ UNCHANGED <<pollVars, camVars, persistVars, cacheVars, draftVars,
                   uploadVars, permVars, stepVars, engineVars>>

\* The native branch: `formData.append('video', {uri, type: mimeType,
\* name: fileName})`.
AppendFile ==
    /\ platform # "web"
    /\ formData = NoPart
    /\ formData' = [type |-> mimeType(formUri), name |-> fileName(formUri)]
    /\ UNCHANGED formUri
    /\ UNCHANGED <<pollVars, camVars, persistVars, cacheVars, draftVars,
                   uploadVars, permVars, stepVars, engineVars>>

\* A video is selected (setSelectedVideo) and analyzeVideo is about to build
\* the body.
InitForm ==
    /\ PollStart
    /\ CamStart
    /\ CacheStart
    /\ PreviewStart
    /\ \E os \in FormPlatforms : PersistStart(os)
    /\ formUri \in Uris
    /\ formData = NoPart

NextForm ==
    \/ \E blobType \in BlobTypes : AppendBlob(blobType)
    \/ AppendFile

SpecForm == InitForm /\ [][NextForm]_vars

\* The table of the three cases.
ByExtension(uri) ==
    IF Len(uri) >= 4 /\ SubSeq(uri, Len(uri) - 3, Len(uri)) = <<".", "m", "o", "v">>
    THEN [type |-> "video/quicktime", name |-> "video.mov"]
    ELSE IF Len(uri) >= 4 /\ SubSeq(uri, Len(uri) - 3, Len(uri)) = <<".", "a", "v", "i">>
    THEN [type |-> "video/x-msvideo", name |-> "video.avi"]
    ELSE [type |-> "video/mp4", name |-> "video.mp4"]

\* C38: the part that is uploaded has the content type and the file name the
\* extension of the selected URI gives (.mov, .avi, else mp4), on the web
\* and on the native platforms alike.
C38_PartByExtension ==
    formData # NoPart => formData = ByExtension(formUri)

=============================================================================
